---- MODULE Spec2Model ----
(***************************************************************************)
(* Go-Sybase: the host-side bridge (package sybase: Raw, Disconnect,       *)
(* handleResponses, handleErrors) and the worker's transaction-affinity    *)
(* pool (ConnectionPoolTransaction, ExecSQLTransactionCallable).           *)
(*                                                                         *)
(* Spec      the bridge of one connected Sybase value: callers of Raw, the *)
(*           two background readers, Disconnect called by the user and by  *)
(*           the error monitor, and the worker process as environment.     *)
(* FairSpec  Spec with weak fairness on every step of the host's           *)
(*           goroutines (the Go scheduler runs a runnable goroutine); the  *)
(*           worker and the user are not obliged to act.                   *)
(* PoolSpec  the worker: the stdin reader submitting transactional         *)
(*           requests, the executor threads and the pool.                  *)
(* ConnectSpec, SessionSpec  Connect and its handshake, then the bridge.    *)
(* WireSpec  the request and response lines, encoded and decoded.          *)
(* ServeSpec, FairServeSpec  the bridge beside the worker's executor.      *)
(* DatabaseSpec  the public Database value over the bridge.                *)
(* LaunchSpec  the worker's command line and what its main makes of it.    *)
(* StartupSpec, FairStartupSpec  Connect beside the worker's constructor.  *)
(***************************************************************************)
EXTENDS Integers, Sequences, FiniteSets, TLC

----------------------------------------------------------------------------
(* Bounds *)

MaxConnects == 2
MaxMsgId == 4
MaxTransId == 2
MaxSets == 2
MaxRows == 2
NumCallers == 2
MaxLines == 2
MaxErrLines == 1
MaximumPoolSize == 1
MaxResults == 3
TransactionConnections == 1
MaxConns == 3
NumTids == 2
MaxRequests == 3
PoolThreads == 2

Callers == 1..NumCallers
MsgIds == 0..NumCallers

DiscThreads == {"user", "mon"}

\* Holders of s.mu: a Raw call is named by its caller, the other goroutines by these
Free == 0
HRHolder == -1
DiscHolder(t) == IF t = "user" THEN -2 ELSE -3
ConnectHolder == -4

----------------------------------------------------------------------------
(* Bridge state: the fields of Sybase (models.go) and the goroutines *)

VARIABLES
  connected,       \* s.connected
  mu,              \* s.mu: Free or the holder
  queryCount,      \* s.queryCount
  currentQueries,  \* s.currentQueries: msgID -> channel (named by its caller)
  stdin,           \* s.stdin: "open" | "closed" (the host's write end)
  stdout,          \* s.stdout: "open" | "closed" (the host's read end)
  stderr,          \* s.stderr: "open" | "closed"
  cmd,             \* s.cmd.Process: "running" | "dead"
  chans,           \* respChan of each Raw call: [buf, closed]
  cpc,             \* position of each Raw call
  cid,             \* msgID local of each Raw call
  cresp,           \* resp local of each Raw call
  cret,            \* what the Raw call returned
  hr,              \* handleResponses goroutine: [pc, line]
  he,              \* handleErrors goroutine: [pc]
  disc,            \* Disconnect activations: thread -> [pc, locked, err (the error returned)]
  panicked,        \* a goroutine panicked (close of closed channel, send on closed channel)
  sent,            \* request ids written to the worker's input stream
  everRegistered,  \* history: ids that were put in currentQueries
  outq,            \* lines the worker wrote to its output stream, not yet scanned
  errq,            \* lines the worker wrote to its error stream, not yet scanned
  nlines,          \* number of output lines written so far
  nerr,            \* number of error lines written so far
  logs,            \* Config.Logs
  cn               \* the Connect call: its position, what it returned, what its scanner saw

bvars == <<connected, mu, queryCount, currentQueries, stdin, stdout, stderr, cmd,
           chans, cpc, cid, cresp, cret, hr, he, disc, panicked, sent,
           everRegistered, outq, errq, nlines, nerr, logs, cn>>

(* Worker state: ConnectionPoolTransaction, the executor and the input reader *)

VARIABLES
  availableConnections,          \* the spare list, in list order
  activeTransactionConnections,  \* transaction id -> its dedicated connection
  nextConn,                      \* connections are numbered as DriverManager creates them
  closedConns,                   \* connections on which close() has run
  halted,                        \* the JVM has run its shutdown hook
  queue,                         \* the executor's work queue (requests submitted, in order)
  nread,                         \* request lines read from the input stream so far
  gen,                           \* history: per transaction id, how many finish requests were read
  tpc,                           \* position of each executor thread
  treq,                          \* the request an executor thread runs
  tconn,                         \* its connection local
  terr,                          \* the error field of the response it is building
  trb,                           \* what handleTransactionError's rollback did
  wout,                          \* the lines written to the output stream
  executed,                      \* history: [transId, gen, msgId, conn] of each statement run
  released,                      \* history: [transId, conn] removed by releaseConnection
  lastConn,                      \* history: per id, what getConnection returned since the last release
  lastFin,                       \* history: per id, whether the last request read carried the finish flag
  since,                         \* history: the last getConnection that mapped an id, and the counts before it
  relResult,                     \* the last releaseConnection call: whether it raised, whether the driver refused the replacement
  ran,                           \* history: [msgId, rejected] of each ExecSQLCallable that ran
  hikariActive                   \* connections the HikariDataSource has handed out and not got back

pvars == <<availableConnections, activeTransactionConnections, nextConn, closedConns,
           halted, queue, nread, gen, tpc, treq, tconn, terr, trb, wout, executed,
           released, lastConn, lastFin, since, relResult, ran, hikariActive>>

(* One message on its way through the encoders and decoders of both sides *)

VARIABLE wire

(* A Database value of the public package: how it was made, its Connected field, and
   the one call made on it *)

VARIABLE ds

vars == <<bvars, wire, ds, pvars>>

----------------------------------------------------------------------------
(* Wire values *)

\* QueryResponse as json.Unmarshal fills it (models.go): MsgID, len(Result), Error != "".
\* line is the position of the line in the worker's output, kept to tell lines apart.
Response(n, id, r, e) == [kind |-> "json", line |-> n, msgId |-> id, rows |-> r, err |-> e]

\* The line Connect waits for: it starts with "JAVALOG: Connection created". To
\* handleResponses it is a line like the next one.
Created(n) == [kind |-> "created", line |-> n, msgId |-> 0, rows |-> 0, err |-> FALSE]

\* A line that json.Unmarshal rejects, or that carries the JAVALOG: prefix.
Junk(n) == [kind |-> "junk", line |-> n, msgId |-> 0, rows |-> 0, err |-> FALSE]

\* The zero QueryResponse: what a receive from a closed channel yields.
ZeroResponse == [kind |-> "zero", line |-> 0, msgId |-> 0, rows |-> 0, err |-> FALSE]

\* No value received yet.
NoResponse == [kind |-> "none", line |-> 0, msgId |-> 0, rows |-> 0, err |-> FALSE]

\* make(chan QueryResponse, 1)
ChanCap == 1
NewChan == [buf |-> <<>>, closed |-> FALSE]

\* Lines of the error stream by the prefix handleErrors tests.
ErrKinds == {"JAVAERROR:", "JAVAEXCEPTION:", "JAVALOG:", "other"}

\* strings.HasPrefix(errMsg, "JAVAERROR:") || strings.HasPrefix(errMsg, "JAVAEXCEPTION:")
IsDiagnostic(k) == k \in {"JAVAERROR:", "JAVAEXCEPTION:"}

----------------------------------------------------------------------------
(* Init: a Sybase value right after Connect returned nil. What the bridge does from
   here on is the same for both values of Config.Logs: handleResponses skips a JAVALOG:
   line when logs is set and skips it as a json.Unmarshal error when not. *)

\* A Connect call that has not been made, and one that returned nil
NoConnect == [pc |-> "idle", ret |-> "none", seen |-> "none", calls |-> 0, ok |-> FALSE]
Connected == [pc |-> "done", ret |-> "nil", seen |-> "created", calls |-> 1, ok |-> TRUE]

AfterConnect ==
  /\ connected = TRUE
  /\ mu = Free
  /\ queryCount = 0
  /\ currentQueries = << >>
  /\ stdin = "open"
  /\ stdout = "open"
  /\ stderr = "open"
  /\ cmd = "running"
  /\ chans = [c \in Callers |-> NewChan]
  /\ cpc = [c \in Callers |-> "start"]
  /\ cid = [c \in Callers |-> 0]
  /\ cresp = [c \in Callers |-> NoResponse]
  /\ cret = [c \in Callers |-> "none"]
  /\ hr = [pc |-> "scan", line |-> NoResponse]
  /\ he = [pc |-> "scan"]
  /\ disc = [t \in DiscThreads |-> [pc |-> "idle", locked |-> FALSE, err |-> "nil"]]
  /\ panicked = FALSE
  /\ sent = {}
  /\ everRegistered = {}
  /\ outq = <<>>
  /\ errq = <<>>
  /\ nlines = 0
  /\ nerr = 0
  /\ cn = Connected

BridgeInit == AfterConnect /\ logs = FALSE

\* A panic in any goroutine ends the host program.
Running == ~panicked

----------------------------------------------------------------------------
(* Raw(sql), one activation per caller *)

\* if !s.IsConnected() { return nil, errors.New("database isn't connected") }
RawIsConnected(c) ==
  /\ Running
  /\ cpc[c] = "start"
  /\ mu = Free
  /\ IF connected
       THEN /\ cpc' = [cpc EXCEPT ![c] = "register"]
            /\ cret' = cret
       ELSE /\ cpc' = [cpc EXCEPT ![c] = "done"]
            /\ cret' = [cret EXCEPT ![c] = "errNotConnected"]
  /\ UNCHANGED <<connected, mu, queryCount, currentQueries, stdin, stdout, stderr,
                 cmd, chans, cid, cresp, hr, he, disc, panicked, sent,
                 everRegistered, outq, errq, nlines, nerr>>
  /\ UNCHANGED <<logs, cn, wire, ds, pvars>>

\* Raw that writes the request in the critical section that registers the waiter
RawRegisterAndWrite(c) ==
  /\ Running
  /\ cpc[c] = "register"
  /\ mu = Free
  /\ queryCount' = queryCount + 1
  /\ cid' = [cid EXCEPT ![c] = queryCount + 1]
  /\ chans' = [chans EXCEPT ![c] = NewChan]
  /\ currentQueries' = [i \in DOMAIN currentQueries \cup {queryCount + 1} |->
                          IF i = queryCount + 1 THEN c ELSE currentQueries[i]]
  /\ everRegistered' = everRegistered \cup {queryCount + 1}
  /\ sent' = IF stdin = "open" /\ cmd = "running" THEN sent \cup {queryCount + 1} ELSE sent
  /\ cpc' = [cpc EXCEPT ![c] = "send"]
  /\ UNCHANGED <<connected, mu, stdin, stdout, stderr, cmd, cresp, cret, hr, he,
                 disc, panicked, outq, errq, nlines, nerr>>
  /\ UNCHANGED <<logs, cn, wire, ds, pvars>>

\* s.mu.Lock(); s.queryCount++; msgID := s.queryCount; respChan := make(...);
\* s.currentQueries[msgID] = respChan; s.mu.Unlock()
RawRegister(c) ==
  /\ Running
  /\ cpc[c] = "register"
  /\ mu = Free
  /\ queryCount' = queryCount + 1
  /\ cid' = [cid EXCEPT ![c] = queryCount + 1]
  /\ chans' = [chans EXCEPT ![c] = NewChan]
  /\ currentQueries' = [i \in DOMAIN currentQueries \cup {queryCount + 1} |->
                          IF i = queryCount + 1 THEN c ELSE currentQueries[i]]
  /\ everRegistered' = everRegistered \cup {queryCount + 1}
  /\ cpc' = [cpc EXCEPT ![c] = "send"]
  /\ UNCHANGED <<connected, mu, stdin, stdout, stderr, cmd, cresp, cret, hr, he,
                 disc, panicked, sent, outq, errq, nlines, nerr>>
  /\ UNCHANGED <<logs, cn, wire, ds, pvars>>

\* fmt.Fprintf(s.stdin, "%s\n", reqBytes): fails on a closed pipe end or a dead reader
RawSend(c) ==
  /\ Running
  /\ cpc[c] = "send"
  /\ IF stdin = "open" /\ cmd = "running"
       THEN /\ sent' = sent \cup {cid[c]}
            /\ cpc' = [cpc EXCEPT ![c] = "recv"]
            /\ cret' = cret
       ELSE /\ sent' = sent
            /\ cpc' = [cpc EXCEPT ![c] = "defer"]
            /\ cret' = [cret EXCEPT ![c] = "errSend"]
  /\ UNCHANGED <<connected, mu, queryCount, currentQueries, stdin, stdout, stderr,
                 cmd, chans, cid, cresp, hr, he, disc, panicked,
                 everRegistered, outq, errq, nlines, nerr>>
  /\ UNCHANGED <<logs, cn, wire, ds, pvars>>

\* What Raw returns for the value it received (part_002:218-228):
\* len(resp.Result) == 0 && resp.Error != "" is the only error path; convertToRawResponse
\* of a result of arrays of objects does not fail.
RawResult(resp) ==
  IF resp.rows = 0 /\ resp.err THEN "errQuery"
  ELSE IF resp.rows = 0 THEN "okEmpty"
  ELSE "okRows"

\* resp := <-respChan: a buffered value, or the zero value once the channel is closed
RawRecv(c) ==
  /\ Running
  /\ cpc[c] = "recv"
  /\ \/ /\ chans[c].buf # <<>>
        /\ cresp' = [cresp EXCEPT ![c] = Head(chans[c].buf)]
        /\ chans' = [chans EXCEPT ![c].buf = Tail(@)]
     \/ /\ chans[c].buf = <<>>
        /\ chans[c].closed
        /\ cresp' = [cresp EXCEPT ![c] = ZeroResponse]
        /\ chans' = chans
  /\ cret' = [cret EXCEPT ![c] = RawResult(cresp'[c])]
  /\ cpc' = [cpc EXCEPT ![c] = "defer"]
  /\ UNCHANGED <<connected, mu, queryCount, currentQueries, stdin, stdout, stderr,
                 cmd, cid, hr, he, disc, panicked, sent,
                 everRegistered, outq, errq, nlines, nerr>>
  /\ UNCHANGED <<logs, cn, wire, ds, pvars>>

\* defer: s.mu.Lock(); delete(s.currentQueries, msgID); s.mu.Unlock()
RawDefer(c) ==
  /\ Running
  /\ cpc[c] = "defer"
  /\ mu = Free
  /\ currentQueries' = [i \in DOMAIN currentQueries \ {cid[c]} |-> currentQueries[i]]
  /\ cpc' = [cpc EXCEPT ![c] = "done"]
  /\ UNCHANGED <<connected, mu, queryCount, stdin, stdout, stderr, cmd, chans,
                 cid, cresp, cret, hr, he, disc, panicked, sent,
                 everRegistered, outq, errq, nlines, nerr>>
  /\ UNCHANGED <<logs, cn, wire, ds, pvars>>

----------------------------------------------------------------------------
(* handleResponses: the dispatch loop *)

\* Lookup that takes any registered channel, whatever the id
LookupAnyWaiter(id) ==
  {currentQueries[i] : i \in DOMAIN currentQueries}

\* ch, exists := s.currentQueries[resp.MsgID]: the channels the response goes to
Lookup(id) ==
  IF id \in DOMAIN currentQueries THEN {currentQueries[id]} ELSE {}

\* A dispatch loop that ends at a line which is no response
HRScanStopsAtJunk ==
  /\ Running
  /\ hr.pc = "scan"
  /\ \/ /\ stdout = "open"
        /\ outq # <<>>
        /\ mu = Free
        /\ hr' = IF ~connected \/ Head(outq).kind # "json"
                   THEN [pc |-> "exit", line |-> NoResponse]
                   ELSE [pc |-> "lock", line |-> Head(outq)]
        /\ outq' = Tail(outq)
     \/ /\ stdout = "closed" \/ (outq = <<>> /\ cmd = "dead")
        /\ hr' = [pc |-> "exit", line |-> NoResponse]
        /\ outq' = outq
  /\ UNCHANGED <<connected, mu, queryCount, currentQueries, stdin, stdout, stderr,
                 cmd, chans, cpc, cid, cresp, cret, he, disc, panicked, sent,
                 everRegistered, errq, nlines, nerr>>
  /\ UNCHANGED <<logs, cn, wire, ds, pvars>>

\* for scanner.Scan() { if !s.IsConnected() { break } ...: the loop ends on end-of-file,
\* on a closed pipe, or when the bridge is not connected. A JAVALOG: line (with logs)
\* and a line json.Unmarshal rejects both continue with the next line.
HRScan ==
  /\ Running
  /\ hr.pc = "scan"
  /\ \/ /\ stdout = "open"
        /\ outq # <<>>
        /\ mu = Free
        /\ hr' = IF ~connected THEN [pc |-> "exit", line |-> NoResponse]
                 ELSE IF Head(outq).kind # "json" THEN [pc |-> "scan", line |-> NoResponse]
                 ELSE [pc |-> "lock", line |-> Head(outq)]
        /\ outq' = Tail(outq)
     \/ /\ stdout = "closed" \/ (outq = <<>> /\ cmd = "dead")
        /\ hr' = [pc |-> "exit", line |-> NoResponse]
        /\ outq' = outq
  /\ UNCHANGED <<connected, mu, queryCount, currentQueries, stdin, stdout, stderr,
                 cmd, chans, cpc, cid, cresp, cret, he, disc, panicked, sent,
                 everRegistered, errq, nlines, nerr>>
  /\ UNCHANGED <<logs, cn, wire, ds, pvars>>

\* s.mu.Lock()
HRLock ==
  /\ Running
  /\ hr.pc = "lock"
  /\ mu = Free
  /\ mu' = HRHolder
  /\ hr' = [hr EXCEPT !.pc = "dispatch"]
  /\ UNCHANGED <<connected, queryCount, currentQueries, stdin, stdout, stderr,
                 cmd, chans, cpc, cid, cresp, cret, he, disc, panicked, sent,
                 everRegistered, outq, errq, nlines, nerr>>
  /\ UNCHANGED <<logs, cn, wire, ds, pvars>>

\* if ch, exists := ...; exists { ch <- resp }; s.mu.Unlock()
\* The send blocks, the mutex held, while the channel's buffer is full; it panics on a
\* closed channel.
HRDispatch ==
  /\ Running
  /\ hr.pc = "dispatch"
  /\ mu = HRHolder
  /\ \/ /\ Lookup(hr.line.msgId) = {}
        /\ mu' = Free
        /\ hr' = [pc |-> "scan", line |-> NoResponse]
        /\ UNCHANGED <<chans, panicked>>
     \/ \E c \in Lookup(hr.line.msgId) :
          \/ /\ chans[c].closed
             /\ panicked' = TRUE
             /\ UNCHANGED <<chans, mu, hr>>
          \/ /\ ~chans[c].closed
             /\ Len(chans[c].buf) < ChanCap
             /\ chans' = [chans EXCEPT ![c].buf = Append(@, hr.line)]
             /\ mu' = Free
             /\ hr' = [pc |-> "scan", line |-> NoResponse]
             /\ panicked' = panicked
  /\ UNCHANGED <<connected, queryCount, currentQueries, stdin, stdout, stderr,
                 cmd, cpc, cid, cresp, cret, he, disc, sent,
                 everRegistered, outq, errq, nlines, nerr>>
  /\ UNCHANGED <<logs, cn, wire, ds, pvars>>

----------------------------------------------------------------------------
(* handleErrors: the error stream monitor *)

\* for scanner.Scan() { if !s.IsConnected() { break } ...: a diagnostic line continues,
\* any other line calls s.Disconnect()
HEScan ==
  /\ Running
  /\ he.pc = "scan"
  /\ \/ /\ stderr = "open"
        /\ errq # <<>>
        /\ mu = Free
        /\ errq' = Tail(errq)
        /\ IF ~connected
             THEN /\ he' = [pc |-> "exit"]
                  /\ disc' = disc
             ELSE IF IsDiagnostic(Head(errq))
               THEN /\ he' = [pc |-> "scan"]
                    /\ disc' = disc
               ELSE /\ he' = [pc |-> "disconnect"]
                    /\ disc' = [disc EXCEPT !["mon"].pc = "start"]
     \/ /\ stderr = "closed" \/ (errq = <<>> /\ cmd = "dead")
        /\ he' = [pc |-> "exit"]
        /\ UNCHANGED <<errq, disc>>
  /\ UNCHANGED <<connected, mu, queryCount, currentQueries, stdin, stdout, stderr,
                 cmd, chans, cpc, cid, cresp, cret, hr, panicked, sent,
                 everRegistered, outq, nlines, nerr>>
  /\ UNCHANGED <<logs, cn, wire, ds, pvars>>

\* s.Disconnect() returned: back to scanner.Scan()
HEResume ==
  /\ Running
  /\ he.pc = "disconnect"
  /\ disc["mon"].pc = "ret"
  /\ he' = [pc |-> "scan"]
  /\ disc' = [disc EXCEPT !["mon"].pc = "idle"]
  /\ UNCHANGED <<connected, mu, queryCount, currentQueries, stdin, stdout, stderr,
                 cmd, chans, cpc, cid, cresp, cret, hr, panicked, sent,
                 everRegistered, outq, errq, nlines, nerr>>
  /\ UNCHANGED <<logs, cn, wire, ds, pvars>>

----------------------------------------------------------------------------
(* Disconnect, run by the user's goroutine ("user") or by handleErrors ("mon") *)

\* A Connect that starts the request counter again
ConnectFinishResetsCount ==
  /\ Running
  /\ cn.pc = "finish"
  /\ stdin' = "open"
  /\ stdout' = "open"
  /\ stderr' = "open"
  /\ connected' = TRUE
  /\ queryCount' = 0
  /\ hr' = [pc |-> "scan", line |-> NoResponse]
  /\ he' = [pc |-> "scan"]
  /\ cn' = [cn EXCEPT !.pc = "done", !.ret = "nil", !.ok = TRUE]
  /\ mu' = Free
  /\ UNCHANGED <<currentQueries, cmd, chans, cpc, cid, cresp, cret, disc,
                 panicked, sent, everRegistered, outq, errq, nlines, nerr, logs>>
  /\ UNCHANGED <<wire, ds, pvars>>

\* A Disconnect that does not look at s.connected
DiscEnterNoCheck(t) ==
  /\ Running
  /\ \/ t = "user" /\ disc[t].pc = "idle"
     \/ t = "mon" /\ disc[t].pc = "start"
  /\ disc' = [disc EXCEPT ![t] = [pc |-> "trylock", locked |-> FALSE, err |-> "nil"]]
  /\ UNCHANGED <<connected, mu, queryCount, currentQueries, stdin, stdout, stderr,
                 cmd, chans, cpc, cid, cresp, cret, hr, he, panicked, sent,
                 everRegistered, outq, errq, nlines, nerr>>
  /\ UNCHANGED <<logs, cn, wire, ds, pvars>>

\* if !s.connected { return errors.New("Database isn't connected") }: read without the mutex
DiscEnter(t) ==
  /\ Running
  /\ \/ t = "user" /\ disc[t].pc = "idle"
     \/ t = "mon" /\ disc[t].pc = "start"
  /\ disc' = [disc EXCEPT ![t] =
                IF connected THEN [pc |-> "trylock", locked |-> FALSE, err |-> "nil"]
                             ELSE [pc |-> "ret", locked |-> FALSE, err |-> "notConnected"]]
  /\ UNCHANGED <<connected, mu, queryCount, currentQueries, stdin, stdout, stderr,
                 cmd, chans, cpc, cid, cresp, cret, hr, he, panicked, sent,
                 everRegistered, outq, errq, nlines, nerr>>
  /\ UNCHANGED <<logs, cn, wire, ds, pvars>>

\* locked := s.mu.TryLock(); if locked { defer s.mu.Unlock() }; s.connected = false
DiscTryLock(t) ==
  /\ Running
  /\ disc[t].pc = "trylock"
  /\ mu' = IF mu = Free THEN DiscHolder(t) ELSE mu
  /\ disc' = [disc EXCEPT ![t] = [pc |-> "close", locked |-> (mu = Free), err |-> "nil"]]
  /\ connected' = FALSE
  /\ UNCHANGED <<queryCount, currentQueries, stdin, stdout, stderr,
                 cmd, chans, cpc, cid, cresp, cret, hr, he, panicked, sent,
                 everRegistered, outq, errq, nlines, nerr>>
  /\ UNCHANGED <<logs, cn, wire, ds, pvars>>

\* return err: the deferred Unlock runs if TryLock had succeeded
DiscReturn(t, e) ==
  /\ disc' = [disc EXCEPT ![t] = [pc |-> "ret", locked |-> FALSE, err |-> e]]
  /\ mu' = IF disc[t].locked THEN Free ELSE mu

\* The four teardown calls in order: s.stdin.Close(), s.stdout.Close(), s.stderr.Close(),
\* s.cmd.Process.Kill(). Each returns the error at once: if err != nil { return err }.
\* failed = 0: none fails; failed = k: the k-th call fails, after the calls before it.
TeardownCalls == 4
DiscClose(t) ==
  /\ Running
  /\ disc[t].pc = "close"
  /\ \E failed \in 0..TeardownCalls :
       /\ stdin' = IF failed = 1 THEN stdin ELSE "closed"
       /\ stdout' = IF failed \in {1, 2} THEN stdout ELSE "closed"
       /\ stderr' = IF failed \in {1, 2, 3} THEN stderr ELSE "closed"
       /\ cmd' = IF failed \in {1, 2, 3, 4} THEN cmd ELSE "dead"
       /\ IF failed = 0
            THEN /\ disc' = [disc EXCEPT ![t].pc = "release"]
                 /\ mu' = mu
            ELSE DiscReturn(t, "closeFailed")
  /\ UNCHANGED <<connected, queryCount, currentQueries,
                 chans, cpc, cid, cresp, cret, hr, he, panicked, sent,
                 everRegistered, outq, errq, nlines, nerr>>
  /\ UNCHANGED <<logs, cn, wire, ds, pvars>>

\* The channels the table holds
Waiters == {currentQueries[i] : i \in DOMAIN currentQueries}

\* for _, ch := range s.currentQueries { close(ch) }: closing a closed channel panics
DiscCloseChans(t) ==
  /\ Running
  /\ disc[t].pc = "release"
  /\ IF \E c \in Waiters : chans[c].closed
       THEN /\ panicked' = TRUE
            /\ UNCHANGED <<chans, disc>>
       ELSE /\ chans' = [c \in Callers |->
                           IF c \in Waiters THEN [chans[c] EXCEPT !.closed = TRUE]
                                            ELSE chans[c]]
            /\ disc' = [disc EXCEPT ![t].pc = "reset"]
            /\ panicked' = panicked
  /\ UNCHANGED <<connected, mu, queryCount, currentQueries, stdin, stdout, stderr,
                 cmd, cpc, cid, cresp, cret, hr, he, sent,
                 everRegistered, outq, errq, nlines, nerr>>
  /\ UNCHANGED <<logs, cn, wire, ds, pvars>>

\* s.currentQueries = make(map[int]chan QueryResponse); return nil
DiscReset(t) ==
  /\ Running
  /\ disc[t].pc = "reset"
  /\ currentQueries' = << >>
  /\ DiscReturn(t, "nil")
  /\ UNCHANGED <<connected, queryCount, stdin, stdout, stderr,
                 cmd, chans, cpc, cid, cresp, cret, hr, he, panicked, sent,
                 everRegistered, outq, errq, nlines, nerr>>
  /\ UNCHANGED <<logs, cn, wire, ds, pvars>>

----------------------------------------------------------------------------
(* The worker process, seen from the host: what it may write and when it may exit *)

\* A response line for a request it has read, or one whose msgId the host decodes as 0
WorkerRespond ==
  /\ Running
  /\ cmd = "running"
  /\ nlines < MaxLines
  /\ \E id \in sent \cup {0}, e \in BOOLEAN :
       /\ id = 0 => ~e
       /\ outq' = Append(outq, Response(nlines + 1, id, IF e THEN 0 ELSE 1, e))
  /\ nlines' = nlines + 1
  /\ UNCHANGED <<connected, mu, queryCount, currentQueries, stdin, stdout, stderr,
                 cmd, chans, cpc, cid, cresp, cret, hr, he, disc, panicked, sent,
                 everRegistered, errq, nerr>>
  /\ UNCHANGED <<logs, cn, wire, ds, pvars>>

\* A line that is no response: a log line or text that is not JSON
WorkerJunk ==
  /\ Running
  /\ cmd = "running"
  /\ nlines < MaxLines
  /\ outq' = Append(outq, Junk(nlines + 1))
  /\ nlines' = nlines + 1
  /\ UNCHANGED <<connected, mu, queryCount, currentQueries, stdin, stdout, stderr,
                 cmd, chans, cpc, cid, cresp, cret, hr, he, disc, panicked, sent,
                 everRegistered, errq, nerr>>
  /\ UNCHANGED <<logs, cn, wire, ds, pvars>>

\* A line on the error stream
WorkerStderr ==
  /\ Running
  /\ cmd = "running"
  /\ nerr < MaxErrLines
  /\ \E k \in ErrKinds : errq' = Append(errq, k)
  /\ nerr' = nerr + 1
  /\ UNCHANGED <<connected, mu, queryCount, currentQueries, stdin, stdout, stderr,
                 cmd, chans, cpc, cid, cresp, cret, hr, he, disc, panicked, sent,
                 everRegistered, outq, nlines>>
  /\ UNCHANGED <<logs, cn, wire, ds, pvars>>

\* The worker process exits: its ends of the three pipes close
WorkerDie ==
  /\ Running
  /\ cmd = "running"
  /\ cmd' = "dead"
  /\ UNCHANGED <<connected, mu, queryCount, currentQueries, stdin, stdout, stderr,
                 chans, cpc, cid, cresp, cret, hr, he, disc, panicked, sent,
                 everRegistered, outq, errq, nlines, nerr>>
  /\ UNCHANGED <<logs, cn, wire, ds, pvars>>

----------------------------------------------------------------------------
(* Connect, called by the user's goroutine *)

\* NewConnectionInstance: no worker, no pipes, no readers
ConnectInit ==
  /\ connected = FALSE
  /\ mu = Free
  /\ queryCount = 0
  /\ currentQueries = << >>
  /\ stdin = "nil"
  /\ stdout = "nil"
  /\ stderr = "nil"
  /\ cmd = "none"
  /\ chans = [c \in Callers |-> NewChan]
  /\ cpc = [c \in Callers |-> "start"]
  /\ cid = [c \in Callers |-> 0]
  /\ cresp = [c \in Callers |-> NoResponse]
  /\ cret = [c \in Callers |-> "none"]
  /\ hr = [pc |-> "off", line |-> NoResponse]
  /\ he = [pc |-> "off"]
  /\ disc = [t \in DiscThreads |-> [pc |-> "idle", locked |-> FALSE, err |-> "nil"]]
  /\ panicked = FALSE
  /\ sent = {}
  /\ everRegistered = {}
  /\ outq = <<>>
  /\ errq = <<>>
  /\ nlines = 0
  /\ nerr = 0
  /\ logs \in BOOLEAN
  /\ cn = NoConnect

\* s.mu.Lock(); if s.connected { return "already connected" }; the pipes; cmd.Start().
\* The user calls Connect again after an error, while connected, or on a bridge that
\* was connected and has been disconnected, once no Disconnect is under way and the two
\* readers of the connection before have returned; MaxConnects times in all. The new
\* process has new pipes, and no reader runs until Connect starts the next two.
NoReader == hr.pc \in {"off", "exit"} /\ he.pc \in {"off", "exit"}

ConnectEnter ==
  /\ Running
  /\ cn.calls < MaxConnects
  /\ \/ cn.pc = "idle"
     \/ cn.pc = "done" /\ (connected \/ ~cn.ok)
     \/ /\ cn.pc = "done" /\ cn.ok /\ ~connected
        /\ NoReader
        /\ \A t \in DiscThreads : disc[t].pc \in {"idle", "ret"}
  /\ mu = Free
  /\ IF connected
       THEN /\ cn' = [cn EXCEPT !.pc = "done", !.ret = "alreadyConnected",
                               !.seen = "none", !.calls = @ + 1]
            /\ UNCHANGED <<mu, cmd, outq, errq, hr, he>>
       ELSE \/ /\ cn' = [cn EXCEPT !.pc = "done", !.ret = "errStart",
                                  !.seen = "none", !.calls = @ + 1]
               /\ UNCHANGED <<mu, cmd, outq, errq, hr, he>>
            \/ /\ cn' = [cn EXCEPT !.pc = IF logs THEN "finish" ELSE "handshake",
                                  !.ret = "none", !.seen = "none", !.calls = @ + 1]
               /\ mu' = ConnectHolder
               /\ cmd' = "running"
               /\ outq' = <<>>
               /\ errq' = <<>>
               /\ hr' = IF NoReader THEN [pc |-> "off", line |-> NoResponse] ELSE hr
               /\ he' = IF NoReader THEN [pc |-> "off"] ELSE he
  /\ UNCHANGED <<connected, queryCount, currentQueries, stdin, stdout, stderr,
                 chans, cpc, cid, cresp, cret, disc, panicked, sent,
                 everRegistered, nlines, nerr, logs>>
  /\ UNCHANGED <<wire, ds, pvars>>

\* The handshake of a Connect that takes any first line for the confirmation
ConnectHandshakeAnyLine ==
  /\ Running
  /\ cn.pc = "handshake"
  /\ outq # <<>> \/ cmd = "dead"
  /\ IF outq = <<>>
       THEN /\ cn' = [cn EXCEPT !.pc = "done", !.ret = "errRead", !.seen = "eof"]
            /\ mu' = Free
            /\ outq' = outq
       ELSE /\ \E k \in 1..Len(outq) : outq' = SubSeq(outq, k + 1, Len(outq))
            /\ cn' = [cn EXCEPT !.pc = "finish", !.seen = "other"]
            /\ mu' = mu
  /\ UNCHANGED <<connected, queryCount, currentQueries, stdin, stdout, stderr,
                 cmd, chans, cpc, cid, cresp, cret, hr, he, disc, panicked, sent,
                 everRegistered, errq, nlines, nerr, logs>>
  /\ UNCHANGED <<wire, ds, pvars>>

\* strings.HasPrefix(text, "JAVALOG: Connection created")
Confirms(line) == line.kind = "created"

\* if !s.logs { scanner := bufio.NewScanner(stdout); if !scanner.Scan() { return
\* "failed to read connection status" }; if the text does not confirm { return
\* "connection failed: ..." } }. Scan blocks until the stream has a line or ends. The
\* scanner reads the stream in blocks: the k - 1 lines the worker had already written
\* behind the first one go into its buffer and are dropped with it.
ConnectHandshake ==
  /\ Running
  /\ cn.pc = "handshake"
  /\ outq # <<>> \/ cmd = "dead"
  /\ IF outq = <<>>
       THEN /\ cn' = [cn EXCEPT !.pc = "done", !.ret = "errRead", !.seen = "eof"]
            /\ mu' = Free
            /\ outq' = outq
       ELSE /\ \E k \in 1..Len(outq) : outq' = SubSeq(outq, k + 1, Len(outq))
            /\ IF Confirms(Head(outq))
                 THEN /\ cn' = [cn EXCEPT !.pc = "finish", !.seen = "created"]
                      /\ mu' = mu
                 ELSE /\ cn' = [cn EXCEPT !.pc = "done", !.ret = "errFailed",
                                          !.seen = "other"]
                      /\ mu' = Free
  /\ UNCHANGED <<connected, queryCount, currentQueries, stdin, stdout, stderr,
                 cmd, chans, cpc, cid, cresp, cret, hr, he, disc, panicked, sent,
                 everRegistered, errq, nlines, nerr, logs>>
  /\ UNCHANGED <<wire, ds, pvars>>

\* s.cmd = cmd ... s.connected = true; go s.handleResponses(); go s.handleErrors();
\* return nil
ConnectFinish ==
  /\ Running
  /\ cn.pc = "finish"
  /\ stdin' = "open"
  /\ stdout' = "open"
  /\ stderr' = "open"
  /\ connected' = TRUE
  /\ hr' = [pc |-> "scan", line |-> NoResponse]
  /\ he' = [pc |-> "scan"]
  /\ cn' = [cn EXCEPT !.pc = "done", !.ret = "nil", !.ok = TRUE]
  /\ mu' = Free
  /\ UNCHANGED <<queryCount, currentQueries, cmd, chans, cpc, cid, cresp, cret, disc,
                 panicked, sent, everRegistered, outq, errq, nlines, nerr, logs>>
  /\ UNCHANGED <<wire, ds, pvars>>

\* The worker writes the line that announces the connection to its output stream
WorkerAnnounce ==
  /\ Running
  /\ cmd = "running"
  /\ nlines < MaxLines
  /\ outq' = Append(outq, Created(nlines + 1))
  /\ nlines' = nlines + 1
  /\ UNCHANGED <<connected, mu, queryCount, currentQueries, stdin, stdout, stderr,
                 cmd, chans, cpc, cid, cresp, cret, hr, he, disc, panicked, sent,
                 everRegistered, errq, nerr, logs, cn>>
  /\ UNCHANGED <<wire, ds, pvars>>

----------------------------------------------------------------------------

Caller == \E c \in Callers :
  \/ RawIsConnected(c)
  \/ RawRegister(c)
  \/ RawSend(c)
  \/ RawRecv(c)
  \/ RawDefer(c)

Dispatcher == HRScan \/ HRLock \/ HRDispatch

Monitor == HEScan \/ HEResume

Disconnect == \E t \in DiscThreads :
  \/ DiscEnter(t)
  \/ DiscTryLock(t)
  \/ DiscClose(t)
  \/ DiscCloseChans(t)
  \/ DiscReset(t)

Worker == WorkerRespond \/ WorkerJunk \/ WorkerStderr \/ WorkerDie

BridgeNext == Caller \/ Dispatcher \/ Monitor \/ Disconnect \/ Worker

----------------------------------------------------------------------------
(* ConnectionPoolTransaction *)

NoConn == 0
Tids == 1..NumTids
Threads == 1..PoolThreads
Conns == 1..MaxConns

\* SQLRequest.transId of a request that belongs to no transaction
NoTransaction == -1

NoRequest == [msgId |-> 0, transId |-> 0, finishTrans |-> FALSE, gen |-> 0]

\* releaseConnection returned normally and asked the driver for nothing it refused
Quiet == [raised |-> FALSE, refused |-> FALSE]

\* No getConnection to compare a release with
NoSince == [tid |-> 0, active |-> 0, available |-> 0, released |-> FALSE]

\* create(): initializeConnectionPool opens transactionConnections spare connections
PoolInit ==
  /\ availableConnections = [i \in 1..TransactionConnections |-> i]
  /\ activeTransactionConnections = << >>
  /\ nextConn = TransactionConnections + 1
  /\ closedConns = {}
  /\ halted = FALSE
  /\ queue = <<>>
  /\ nread = 0
  /\ gen = [tid \in Tids |-> 0]
  /\ tpc = [t \in Threads |-> "idle"]
  /\ treq = [t \in Threads |-> NoRequest]
  /\ tconn = [t \in Threads |-> NoConn]
  /\ terr = [t \in Threads |-> "none"]
  /\ trb = [t \in Threads |-> "none"]
  /\ wout = {}
  /\ executed = {}
  /\ released = {}
  /\ lastConn = [tid \in Tids |-> NoConn]
  /\ lastFin = [tid \in Tids |-> FALSE]
  /\ since = NoSince
  /\ relResult = Quiet
  /\ ran = {}
  /\ hikariActive = 0

\* this.activeTransactionConnections.put(transactionId, connection)
Put(map, tid, conn) ==
  [k \in DOMAIN map \cup {tid} |-> IF k = tid THEN conn ELSE map[k]]

\* this.activeTransactionConnections.remove(transactionId)
Remove(map, tid) ==
  [k \in DOMAIN map \ {tid} |-> map[k]]

\* getConnection that does not look the id up in the map first
GetConnectionNoLookup(tid, res) ==
  \/ /\ availableConnections # <<>>
     /\ res = Head(availableConnections)
     /\ availableConnections' = Tail(availableConnections)
     /\ activeTransactionConnections' = Put(activeTransactionConnections, tid, res)
     /\ UNCHANGED nextConn
  \/ /\ availableConnections = <<>>
     /\ nextConn <= MaxConns
     /\ res = nextConn
     /\ nextConn' = nextConn + 1
     /\ activeTransactionConnections' = Put(activeTransactionConnections, tid, res)
     /\ UNCHANGED availableConnections
  \/ /\ availableConnections = <<>>
     /\ res = NoConn
     /\ UNCHANGED <<availableConnections, activeTransactionConnections, nextConn>>

\* getConnection that reads the head of the spare list without removing it
GetConnectionKeepSpare(tid, res) ==
  IF tid \in DOMAIN activeTransactionConnections
    THEN /\ res = activeTransactionConnections[tid]
         /\ UNCHANGED <<availableConnections, activeTransactionConnections, nextConn>>
    ELSE \/ /\ availableConnections # <<>>
            /\ res = Head(availableConnections)
            /\ activeTransactionConnections' = Put(activeTransactionConnections, tid, res)
            /\ UNCHANGED <<availableConnections, nextConn>>
         \/ /\ availableConnections = <<>>
            /\ nextConn <= MaxConns
            /\ res = nextConn
            /\ nextConn' = nextConn + 1
            /\ activeTransactionConnections' = Put(activeTransactionConnections, tid, res)
            /\ UNCHANGED availableConnections
         \/ /\ availableConnections = <<>>
            /\ res = NoConn
            /\ UNCHANGED <<availableConnections, activeTransactionConnections, nextConn>>

\* synchronized getConnection(transactionId): res is the connection returned, NoConn when
\* createNewConnection throws. The driver may refuse a connection at any time; the model
\* creates at most MaxConns.
GetConnection(tid, res) ==
  IF tid \in DOMAIN activeTransactionConnections
    THEN /\ res = activeTransactionConnections[tid]
         /\ UNCHANGED <<availableConnections, activeTransactionConnections, nextConn>>
    ELSE \/ /\ availableConnections # <<>>
            /\ res = Head(availableConnections)
            /\ availableConnections' = Tail(availableConnections)
            /\ activeTransactionConnections' = Put(activeTransactionConnections, tid, res)
            /\ UNCHANGED nextConn
         \/ /\ availableConnections = <<>>
            /\ nextConn <= MaxConns
            /\ res = nextConn
            /\ nextConn' = nextConn + 1
            /\ activeTransactionConnections' = Put(activeTransactionConnections, tid, res)
            /\ UNCHANGED availableConnections
         \/ /\ availableConnections = <<>>
            /\ res = NoConn
            /\ UNCHANGED <<availableConnections, activeTransactionConnections, nextConn>>

\* The replenishing step of releaseConnection, given the spare list after the removal:
\* if (getAvailableConnectionCount() < maxTransactionConnections) add a new connection;
\* an SQLException of createNewConnection is logged.
Replenish ==
  IF Len(availableConnections) < TransactionConnections
    THEN \/ /\ nextConn <= MaxConns
            /\ availableConnections' = Append(availableConnections, nextConn)
            /\ nextConn' = nextConn + 1
         \/ UNCHANGED <<availableConnections, nextConn>>
    ELSE UNCHANGED <<availableConnections, nextConn>>

\* releaseConnection that closes the connection and leaves its mapping in the map
ReleaseConnectionKeepMapping(tid) ==
  IF tid \notin DOMAIN activeTransactionConnections
    THEN /\ relResult' = Quiet
         /\ UNCHANGED <<availableConnections, activeTransactionConnections, nextConn,
                        closedConns, released, lastConn>>
    ELSE /\ released' = released \cup
              {[transId |-> tid, conn |-> activeTransactionConnections[tid]]}
         /\ lastConn' = [lastConn EXCEPT ![tid] = NoConn]
         /\ closedConns' = closedConns \cup {activeTransactionConnections[tid]}
         /\ Replenish
         /\ relResult' = Quiet
         /\ UNCHANGED activeTransactionConnections

\* releaseConnection that never replenishes the spare list
ReleaseConnectionNoReplenish(tid) ==
  IF tid \notin DOMAIN activeTransactionConnections
    THEN /\ relResult' = Quiet
         /\ UNCHANGED <<availableConnections, activeTransactionConnections, nextConn,
                        closedConns, released, lastConn>>
    ELSE /\ activeTransactionConnections' = Remove(activeTransactionConnections, tid)
         /\ released' = released \cup
              {[transId |-> tid, conn |-> activeTransactionConnections[tid]]}
         /\ lastConn' = [lastConn EXCEPT ![tid] = NoConn]
         /\ closedConns' = closedConns \cup {activeTransactionConnections[tid]}
         /\ relResult' = Quiet
         /\ UNCHANGED <<availableConnections, nextConn>>

\* releaseConnection that puts the connection it closed back in the spare list
ReleaseConnectionRecycle(tid) ==
  IF tid \notin DOMAIN activeTransactionConnections
    THEN /\ relResult' = Quiet
         /\ UNCHANGED <<availableConnections, activeTransactionConnections, nextConn,
                        closedConns, released, lastConn>>
    ELSE /\ activeTransactionConnections' = Remove(activeTransactionConnections, tid)
         /\ released' = released \cup
              {[transId |-> tid, conn |-> activeTransactionConnections[tid]]}
         /\ lastConn' = [lastConn EXCEPT ![tid] = NoConn]
         /\ closedConns' = closedConns \cup {activeTransactionConnections[tid]}
         /\ availableConnections' =
              Append(availableConnections, activeTransactionConnections[tid])
         /\ relResult' = Quiet
         /\ UNCHANGED nextConn

\* synchronized releaseConnection(transactionId): remove the mapping, close the
\* connection (close() may throw, the finally block still runs and the exception leaves
\* the method after it), replenish (createNewConnection may throw: caught and logged).
ReleaseConnection(tid) ==
  IF tid \notin DOMAIN activeTransactionConnections
    THEN /\ relResult' = Quiet
         /\ UNCHANGED <<availableConnections, activeTransactionConnections, nextConn,
                        closedConns, released, lastConn>>
    ELSE /\ activeTransactionConnections' = Remove(activeTransactionConnections, tid)
         /\ released' = released \cup
              {[transId |-> tid, conn |-> activeTransactionConnections[tid]]}
         /\ lastConn' = [lastConn EXCEPT ![tid] = NoConn]
         /\ \E closeOk \in BOOLEAN :
              /\ closedConns' = IF closeOk
                                  THEN closedConns \cup {activeTransactionConnections[tid]}
                                  ELSE closedConns
              /\ Replenish
              /\ relResult' =
                   [raised |-> ~closeOk,
                    refused |-> /\ Len(availableConnections) < TransactionConnections
                                /\ nextConn' = nextConn]

\* shutdown(): close and clear both collections (the JVM's shutdown hook; the JVM halts
\* when its hooks have run)
Shutdown ==
  /\ ~halted
  /\ closedConns' = closedConns
       \cup {availableConnections[i] : i \in 1..Len(availableConnections)}
       \cup {activeTransactionConnections[k] : k \in DOMAIN activeTransactionConnections}
  /\ availableConnections' = <<>>
  /\ activeTransactionConnections' = << >>
  /\ halted' = TRUE
  /\ UNCHANGED <<nextConn, queue, nread, gen, tpc, treq, tconn, terr, trb, wout,
                 executed, released, lastConn>>
  /\ UNCHANGED <<bvars, wire, ds, ran, hikariActive, lastFin, relResult>>
  /\ since' = NoSince

----------------------------------------------------------------------------
(* The worker's input reader and executor threads *)

\* startReadLoop / parseRequest / Main.sqlRequest / execSQL: one request line is read and
\* its callable submitted to the fixed thread pool. A line without transId gets
\* NoTransaction; ExecSQLCallable never reads finishTrans, so such a request's flag keeps
\* parseRequest's default. gen counts, per transaction id, the finish-transaction
\* requests read before this one.
ReadRequest ==
  /\ ~halted
  /\ nread < MaxRequests
  /\ \/ \E tid \in Tids, fin \in BOOLEAN :
          /\ queue' = Append(queue, [msgId |-> nread + 1, transId |-> tid,
                                     finishTrans |-> fin, gen |-> gen[tid]])
          /\ gen' = [gen EXCEPT ![tid] = IF fin THEN @ + 1 ELSE @]
          /\ lastFin' = [lastFin EXCEPT ![tid] = fin]
     \/ /\ queue' = Append(queue, [msgId |-> nread + 1, transId |-> NoTransaction,
                                   finishTrans |-> TRUE, gen |-> 0])
        /\ UNCHANGED <<gen, lastFin>>
  /\ nread' = nread + 1
  /\ UNCHANGED <<availableConnections, activeTransactionConnections, nextConn,
                 closedConns, halted, tpc, treq, tconn, terr, trb, wout, executed,
                 released, lastConn>>
  /\ UNCHANGED <<bvars, wire, ds, ran, hikariActive, since, relResult>>

\* An idle executor thread takes the oldest submitted callable: createCallable made an
\* ExecSQLTransactionCallable when transId != -1 and an ExecSQLCallable otherwise
TakeTask(t) ==
  /\ ~halted
  /\ tpc[t] = "idle"
  /\ queue # <<>>
  /\ treq' = [treq EXCEPT ![t] = Head(queue)]
  /\ queue' = Tail(queue)
  /\ tpc' = [tpc EXCEPT ![t] = IF Head(queue).transId # NoTransaction THEN "get"
                                                                      ELSE "query"]
  /\ UNCHANGED <<availableConnections, activeTransactionConnections, nextConn,
                 closedConns, halted, nread, gen, tconn, terr, trb, wout, executed,
                 released, lastConn>>
  /\ UNCHANGED <<bvars, wire, ds, ran, hikariActive, lastFin, since, relResult>>

(* ExecSQLCallable.call() in three steps, as far as the worker's own state goes: the
   HikariDataSource hands out at most MaximumPoolSize connections at a time *)

\* connection = connectionPool.getConnection(): returns when the pool has a connection
\* to hand out, and waits while it has none
QueryGetConnection(t) ==
  /\ ~halted
  /\ tpc[t] = "query"
  /\ hikariActive < MaximumPoolSize
  /\ hikariActive' = hikariActive + 1
  /\ tpc' = [tpc EXCEPT ![t] = "statement"]
  /\ UNCHANGED <<availableConnections, activeTransactionConnections, nextConn,
                 closedConns, halted, queue, nread, gen, treq, tconn, terr, trb, wout,
                 executed, released, lastConn, lastFin, since, relResult>>

\* The wait has lasted connectionTimeout: getConnection throws, the catch block finds
\* connection == null and call() returns the error response to the dropped Future
QueryTimesOut(t) ==
  /\ ~halted
  /\ tpc[t] = "query"
  /\ hikariActive >= MaximumPoolSize
  /\ tpc' = [tpc EXCEPT ![t] = "idle"]
  /\ treq' = [treq EXCEPT ![t] = NoRequest]
  /\ UNCHANGED <<availableConnections, activeTransactionConnections, nextConn,
                 closedConns, halted, queue, nread, gen, tconn, terr, trb, wout,
                 executed, released, lastConn, lastFin, since, relResult, hikariActive>>

\* A statement run that keeps its connection
RunQueryKeepConnection(t) ==
  /\ ~halted
  /\ tpc[t] = "statement"
  /\ tpc' = [tpc EXCEPT ![t] = "idle"]
  /\ treq' = [treq EXCEPT ![t] = NoRequest]
  /\ UNCHANGED <<availableConnections, activeTransactionConnections, nextConn,
                 closedConns, halted, queue, nread, gen, tconn, terr, trb, wout,
                 executed, released, lastConn, lastFin, since, relResult, hikariActive>>

\* The rest of executeSqlQuery: the statement runs and connection.close() gives the
\* connection back, after the results or in the catch block; call() returns the response
\* (with the error field when the statement failed) to a Future that execSQL drops, and
\* nothing is written to the output stream
RunQuery(t) ==
  /\ ~halted
  /\ tpc[t] = "statement"
  /\ hikariActive' = hikariActive - 1
  /\ tpc' = [tpc EXCEPT ![t] = "idle"]
  /\ treq' = [treq EXCEPT ![t] = NoRequest]
  /\ UNCHANGED <<availableConnections, activeTransactionConnections, nextConn,
                 closedConns, halted, queue, nread, gen, tconn, terr, trb, wout,
                 executed, released, lastConn, lastFin, since, relResult>>

ThreadQueryGet(t) == QueryGetConnection(t) /\ UNCHANGED <<bvars, wire, ds, ran>>

ThreadQueryTimeout(t) == QueryTimesOut(t) /\ UNCHANGED <<bvars, wire, ds, ran>>

ThreadQuery(t) == RunQuery(t) /\ UNCHANGED <<bvars, wire, ds, ran>>

\* connection = this.connectionPool.getConnection(sqlRequest.transId); its SQLException
\* goes to handleTransactionError, which finds connection == null and rolls nothing
\* back, and then to cleanupResources
ThreadGet(t) ==
  /\ ~halted
  /\ tpc[t] = "get"
  /\ \E res \in {NoConn} \cup Conns :
       /\ GetConnection(treq[t].transId, res)
       /\ tconn' = [tconn EXCEPT ![t] = res]
       /\ lastConn' = [lastConn EXCEPT ![treq[t].transId] = IF res = NoConn THEN @ ELSE res]
       /\ tpc' = [tpc EXCEPT ![t] = IF res = NoConn THEN "cleanup" ELSE "exec"]
       /\ terr' = [terr EXCEPT ![t] = IF res = NoConn THEN "exception" ELSE "none"]
       /\ since' = IF res # NoConn /\ treq[t].transId \notin DOMAIN activeTransactionConnections
                     THEN [tid |-> treq[t].transId,
                           active |-> Cardinality(DOMAIN activeTransactionConnections),
                           available |-> Len(availableConnections),
                           released |-> FALSE]
                     ELSE since
  /\ UNCHANGED <<closedConns, halted, queue, nread, gen, treq, trb, wout, executed,
                 released>>
  /\ UNCHANGED <<bvars, wire, ds, ran, hikariActive, lastFin, relResult>>

\* if (connection == null || connection.isClosed()) { error response; return } else
\* statement.execute(sqlRequest.sql) starts on the connection
ThreadExec(t) ==
  /\ ~halted
  /\ tpc[t] = "exec"
  /\ IF tconn[t] \in closedConns
       THEN /\ tpc' = [tpc EXCEPT ![t] = "cleanup"]
            /\ terr' = [terr EXCEPT ![t] = "closed"]
            /\ executed' = executed
       ELSE /\ tpc' = [tpc EXCEPT ![t] = "running"]
            /\ terr' = terr
            /\ executed' = executed \cup
                 {[transId |-> treq[t].transId, gen |-> treq[t].gen,
                   msgId |-> treq[t].msgId, conn |-> tconn[t]]}
  /\ UNCHANGED <<availableConnections, activeTransactionConnections, nextConn,
                 closedConns, halted, queue, nread, gen, treq, tconn, trb, wout,
                 released, lastConn>>
  /\ UNCHANGED <<bvars, wire, ds, ran, hikariActive, lastFin, since, relResult>>

\* The statement ends and its result sets are drained; the finally block comes next
ThreadFinish(t) ==
  /\ ~halted
  /\ tpc[t] = "running"
  /\ tpc' = [tpc EXCEPT ![t] = "cleanup"]
  /\ UNCHANGED <<availableConnections, activeTransactionConnections, nextConn,
                 closedConns, halted, queue, nread, gen, treq, tconn, terr, trb, wout,
                 executed, released, lastConn>>
  /\ UNCHANGED <<bvars, wire, ds, ran, hikariActive, lastFin, since, relResult>>

\* A statement failure that goes to cleanupResources without handleTransactionError
ThreadFailNoRollback(t) ==
  /\ ~halted
  /\ tpc[t] = "running"
  /\ tpc' = [tpc EXCEPT ![t] = "cleanup"]
  /\ terr' = [terr EXCEPT ![t] = "exception"]
  /\ UNCHANGED <<availableConnections, activeTransactionConnections, nextConn,
                 closedConns, halted, queue, nread, gen, treq, tconn, trb, wout,
                 executed, released, lastConn>>
  /\ UNCHANGED <<bvars, wire, ds, ran, hikariActive, lastFin, since, relResult>>

\* The statement throws an SQLException: catch (SQLException ex) enters
\* handleTransactionError, which puts the message in the response's error field
ThreadFail(t) ==
  /\ ~halted
  /\ tpc[t] = "running"
  /\ tpc' = [tpc EXCEPT ![t] = "rollback"]
  /\ terr' = [terr EXCEPT ![t] = "exception"]
  /\ UNCHANGED <<availableConnections, activeTransactionConnections, nextConn,
                 closedConns, halted, queue, nread, gen, treq, tconn, trb, wout,
                 executed, released, lastConn>>
  /\ UNCHANGED <<bvars, wire, ds, ran, hikariActive, lastFin, since, relResult>>

\* handleTransactionError: connection.rollback() in a try; its SQLException is logged
\* (it throws on a connection another thread has closed). The finally block comes next.
ThreadRollback(t) ==
  /\ ~halted
  /\ tpc[t] = "rollback"
  /\ \E ok \in BOOLEAN :
       /\ tconn[t] \in closedConns => ~ok
       /\ trb' = [trb EXCEPT ![t] = IF ok THEN "done" ELSE "failed"]
  /\ tpc' = [tpc EXCEPT ![t] = "cleanup"]
  /\ UNCHANGED <<availableConnections, activeTransactionConnections, nextConn,
                 closedConns, halted, queue, nread, gen, treq, tconn, terr, wout,
                 executed, released, lastConn>>
  /\ UNCHANGED <<bvars, wire, ds, ran, hikariActive, lastFin, since, relResult>>

\* cleanupResources: if (sqlRequest.finishTrans) releaseConnection(sqlRequest.transId),
\* its SQLException logged; then the result set and the statement are closed
ThreadCleanup(t) ==
  /\ ~halted
  /\ tpc[t] = "cleanup"
  /\ IF treq[t].finishTrans
       THEN ReleaseConnection(treq[t].transId)
       ELSE UNCHANGED <<availableConnections, activeTransactionConnections, nextConn,
                        closedConns, released, lastConn, relResult>>
  /\ tpc' = [tpc EXCEPT ![t] = "respond"]
  /\ UNCHANGED <<halted, queue, nread, gen, treq, tconn, terr, trb, wout, executed>>
  /\ UNCHANGED <<bvars, wire, ds, ran, hikariActive, lastFin>>
  /\ since' = IF treq[t].finishTrans /\ treq[t].transId \in DOMAIN activeTransactionConnections
               THEN IF since.tid = treq[t].transId /\ ~since.released
                      THEN [since EXCEPT !.released = TRUE]
                      ELSE NoSince
               ELSE since

\* response.put("messageId", sqlRequest.msgId) ... response.toJSONString(): the line
\* executeSqlTransaction returns for the request
ResponseLine(req, err) ==
  [key |-> "messageId", id |-> req.msgId, error |-> err]

\* ExecSQLTransactionCallable.call(): System.out.println(result); the thread is idle again
ThreadRespond(t) ==
  /\ ~halted
  /\ tpc[t] = "respond"
  /\ wout' = wout \cup {ResponseLine(treq[t], terr[t])}
  /\ tpc' = [tpc EXCEPT ![t] = "idle"]
  /\ treq' = [treq EXCEPT ![t] = NoRequest]
  /\ tconn' = [tconn EXCEPT ![t] = NoConn]
  /\ terr' = [terr EXCEPT ![t] = "none"]
  /\ trb' = [trb EXCEPT ![t] = "none"]
  /\ UNCHANGED <<availableConnections, activeTransactionConnections, nextConn,
                 closedConns, halted, queue, nread, gen, executed, released, lastConn>>
  /\ UNCHANGED <<bvars, wire, ds, ran, hikariActive, lastFin, since, relResult>>

Executor == \E t \in Threads :
  \/ TakeTask(t)
  \/ ThreadQueryGet(t)
  \/ ThreadQueryTimeout(t)
  \/ ThreadQuery(t)
  \/ ThreadGet(t)
  \/ ThreadExec(t)
  \/ ThreadFinish(t)
  \/ ThreadFail(t)
  \/ ThreadRollback(t)
  \/ ThreadCleanup(t)
  \/ ThreadRespond(t)

PoolNext == ReadRequest \/ Executor \/ Shutdown

----------------------------------------------------------------------------

(* The request on the wire: json.Marshal of QueryRequest, parseRequest *)

\* No message is followed
NoWire == [stage |-> "idle"]

\* No Database value is under study
NoDatabase == [pc |-> "none"]

\* QueryRequest values: MsgID, TransID (-1: no transaction), FinishTrans
Requests ==
  [MsgID : 0..MaxMsgId, TransID : -1..MaxTransId, FinishTrans : BOOLEAN]

\* json.Marshal(req): the keys of the JSON object and their values. The tags of TransID
\* and FinishTrans carry omitempty: a zero TransID and a false FinishTrans are left out.
MarshalRequest(req) ==
  [k \in {"msgId", "sql"}
         \cup (IF req.TransID # 0 THEN {"transId"} ELSE {})
         \cup (IF req.FinishTrans THEN {"finishTrans"} ELSE {}) |->
     CASE k = "msgId" -> req.MsgID
       [] k = "transId" -> req.TransID
       [] k = "finishTrans" -> req.FinishTrans
       [] k = "sql" -> "select"]

\* getIntValue / getBooleanValue: the value of the key, the default when it is absent
GetValue(json, key, defaultValue) ==
  IF key \in DOMAIN json THEN json[key] ELSE defaultValue

\* parseRequest: null without msgId or sql, else the SQLRequest with its defaults
NullRequest == [msgId |-> -1, transId |-> -1, finishTrans |-> FALSE, valid |-> FALSE]
ParseRequest(json) ==
  IF "msgId" \notin DOMAIN json \/ "sql" \notin DOMAIN json
    THEN NullRequest
    ELSE [msgId |-> GetValue(json, "msgId", 1),
          transId |-> GetValue(json, "transId", -1),
          finishTrans |-> GetValue(json, "finishTrans", TRUE),
          valid |-> TRUE]

(* The response on the wire: executeSqlQuery / executeSqlTransaction build it,
   json.Unmarshal and convertToRawResponse read it *)

\* A column value: SQL NULL or a value
Null == "null"
Values == {Null, "value"}
Columns == {"a", "b"}

\* The rows of a result set the driver returns, and the result sets of a statement
Rows == [Columns -> Values]
SeqsUpTo(S, n) == UNION {[1..k -> S] : k \in 0..n}
ResultSets == SeqsUpTo(SeqsUpTo(Rows, MaxRows), MaxSets)

\* The exception message of a failed statement, "" when there was none
ErrorTexts == {"", "driver message"}

\* rowData.put(columnName, null) for a NULL, rowData.put(columnName, columnValue) else:
\* the JSON object has every column as a key
RowData(row) == [c \in DOMAIN row |-> row[c]]

\* resultSetsArray.add(resultRows); resultRows.add(rowData): the "result" array; the
\* "error" key is put by the catch block only
ResponseJSON(sets, error) ==
  [result |-> [i \in 1..Len(sets) |-> [j \in 1..Len(sets[i]) |-> RowData(sets[i][j])]],
   error |-> error,
   hasError |-> error # ""]

\* json.Unmarshal into QueryResponse: Result []any, Error string ("" when the key is absent)
UnmarshalResponse(json) ==
  [Result |-> json.result, Error |-> IF json.hasError THEN json.error ELSE ""]

\* A JSON object read into a map that leaves out the keys whose value is null
UnmarshalObjectOmitNull(obj) ==
  [k \in {c \in DOMAIN obj : obj[c] # Null} |-> obj[k]]

\* json.Unmarshal of a JSON object into map[string]any: every key, null as nil
UnmarshalObject(obj) == [k \in DOMAIN obj |-> obj[k]]

\* convertToRawResponse: for each item of data, marshal it, unmarshal it into
\* []map[string]any and append its maps to response.Results
RECURSIVE ConvertToRawResponse(_)
ConvertToRawResponse(data) ==
  IF data = <<>> THEN <<>>
  ELSE [j \in 1..Len(Head(data)) |-> UnmarshalObject(Head(data)[j])]
         \o ConvertToRawResponse(Tail(data))

\* Raw after resp := <-respChan: the error when the result is empty and the error text
\* is not, else the converted rows
RawReturnValue(resp) ==
  IF Len(resp.Result) = 0 /\ resp.Error # ""
    THEN [ok |-> FALSE, error |-> resp.Error, rows |-> <<>>]
    ELSE [ok |-> TRUE, error |-> "", rows |-> ConvertToRawResponse(resp.Result)]

\* The host has a request to send, or the worker has run a statement
WireInit ==
  wire \in {[stage |-> "request", req |-> r] : r \in Requests}
      \cup {[stage |-> "result", sets |-> s, error |-> e] : s \in ResultSets, e \in ErrorTexts}

\* response.toJSONString() written to the output stream
WireRespond ==
  /\ wire.stage = "result"
  /\ wire' = [stage |-> "respline", sets |-> wire.sets, error |-> wire.error,
              line |-> ResponseJSON(wire.sets, wire.error)]
  /\ UNCHANGED <<bvars, pvars, ds>>

\* handleResponses: json.Unmarshal(scanner.Bytes(), &resp)
WireUnmarshal ==
  /\ wire.stage = "respline"
  /\ wire' = [stage |-> "decoded", sets |-> wire.sets, error |-> wire.error,
              resp |-> UnmarshalResponse(wire.line)]
  /\ UNCHANGED <<bvars, pvars, ds>>

\* Raw returns
WireReturn ==
  /\ wire.stage = "decoded"
  /\ wire' = [stage |-> "returned", sets |-> wire.sets, error |-> wire.error,
              ret |-> RawReturnValue(wire.resp)]
  /\ UNCHANGED <<bvars, pvars, ds>>

\* reqBytes, err := json.Marshal(req); fmt.Fprintf(s.stdin, "%s\n", reqBytes)
WireMarshal ==
  /\ wire.stage = "request"
  /\ wire' = [stage |-> "line", req |-> wire.req, line |-> MarshalRequest(wire.req)]
  /\ UNCHANGED <<bvars, pvars, ds>>

\* processInputLine: SQLRequest request = parseRequest(normalizedInput)
WireParse ==
  /\ wire.stage = "line"
  /\ wire' = [stage |-> "parsed", req |-> wire.req, parsed |-> ParseRequest(wire.line)]
  /\ UNCHANGED <<bvars, pvars, ds>>

WireNext == WireMarshal \/ WireParse \/ WireRespond \/ WireUnmarshal \/ WireReturn

Init == BridgeInit /\ PoolInit /\ wire = NoWire /\ ds = NoDatabase

InitWire == BridgeInit /\ PoolInit /\ WireInit /\ ds = NoDatabase

WireSpec == InitWire /\ [][WireNext]_vars

(***************************************************************************)
(* Launching the worker: the command line Connect builds and what the      *)
(* worker's main makes of it                                               *)
(***************************************************************************)

\* Paths a configuration may name, and the text of small integers
PropertiesPaths == {"resources/tdslink.properties", "conf/tds.properties"}

MaxSetting == 2

\* strconv.Itoa for the settings the model draws
Itoa(n) == <<"0", "1", "2", "3", "4", "5", "6", "7", "8", "9">>[n + 1]

\* strconv.FormatBool
FormatBool(b) == IF b THEN "true" ELSE "false"

\* os.Stat(path) finds a file
FileExists(path, files) == path \in files

\* _, err := os.Stat(path); return os.IsNotExist(err)
checkFileExistence(path, files) == ~FileExists(path, files)

\* host, port, database, username, password, logs, minConnections, maxConnections,
\* connectionTimeout, idleTimeout, keepaliveTime, maxLifetime, transactionConnections
ScalarArgs(config) ==
  <<"host", "5000", "database", "username", "password", FormatBool(config.Logs),
    Itoa(config.MinConnections), Itoa(config.MaxConnections), "30", "60", "90", "120",
    Itoa(config.TransactionConnections)>>

\* The arguments after "java -jar <tdsJarPath>" in Connect
CommandArgs(config, files) ==
  IF config.TdsProperties # "" /\ checkFileExistence(config.TdsProperties, files)
    THEN <<config.TdsProperties>>
    ELSE ScalarArgs(config)

REQUIRED_ARGS == 13

\* Main.buildProperties: a single argument is a properties file to load, or the worker
\* exits; otherwise thirteen arguments are the settings, or the worker exits
buildProperties(args, files) ==
  IF Len(args) = 1
    THEN IF FileExists(args[1], files)
           THEN [exit |-> FALSE, from |-> "file", path |-> args[1], log |-> "",
                 transactionConnections |-> ""]
           ELSE [exit |-> TRUE, from |-> "file", path |-> args[1], log |-> "",
                 transactionConnections |-> ""]
    ELSE IF Len(args) # REQUIRED_ARGS
           THEN [exit |-> TRUE, from |-> "args", path |-> "", log |-> "",
                 transactionConnections |-> ""]
           ELSE [exit |-> FALSE, from |-> "args", path |-> "", log |-> args[6],
                 transactionConnections |-> args[13]]

\* A configuration and the files on disk when Connect runs
LaunchInit ==
  wire \in {[stage |-> "config", files |-> f,
             config |-> [TdsProperties |-> p, Logs |-> l, MinConnections |-> mn,
                         MaxConnections |-> mx, TransactionConnections |-> tc]] :
            f \in SUBSET PropertiesPaths, p \in {""} \cup PropertiesPaths,
            l \in BOOLEAN, mn \in 0..1, mx \in 1..MaxSetting, tc \in 0..MaxSetting}

\* Connect: cmd = exec.Command("java", "-jar", s.tdsJarPath, ...)
LaunchCommand ==
  /\ wire.stage = "config"
  /\ wire' = [stage |-> "command", files |-> wire.files, config |-> wire.config,
              args |-> CommandArgs(wire.config, wire.files)]
  /\ UNCHANGED <<bvars, pvars, ds>>

\* Main.main: final Properties props = buildProperties(args)
LaunchMain ==
  /\ wire.stage = "command"
  /\ wire' = [stage |-> "main", files |-> wire.files, config |-> wire.config,
              args |-> wire.args, props |-> buildProperties(wire.args, wire.files)]
  /\ UNCHANGED <<bvars, pvars, ds>>

LaunchNext == LaunchCommand \/ LaunchMain

InitLaunch == BridgeInit /\ PoolInit /\ LaunchInit /\ ds = NoDatabase

LaunchSpec == InitLaunch /\ [][LaunchNext]_vars

Next == BridgeNext

Spec == Init /\ [][Next]_vars

PoolSpec == Init /\ [][PoolNext]_vars

\* The Go scheduler runs every goroutine that can take a step; nothing obliges the
\* worker to write or the user to call Disconnect.
RawCall(c) ==
  RawIsConnected(c) \/ RawRegister(c) \/ RawSend(c) \/ RawRecv(c) \/ RawDefer(c)

DisconnectRun(t) ==
  DiscTryLock(t) \/ DiscClose(t) \/ DiscCloseChans(t) \/ DiscReset(t)

FairSpec ==
  /\ Spec
  /\ \A c \in Callers : WF_vars(RawCall(c))
  /\ WF_vars(Dispatcher)
  /\ WF_vars(Monitor)
  /\ WF_vars(DiscEnter("mon"))
  /\ \A t \in DiscThreads : WF_vars(DisconnectRun(t))

\* Connect and what can run beside it: the worker, one Raw call, Disconnect, and the
\* two readers once Connect has started them
Connect == ConnectEnter \/ ConnectHandshake \/ ConnectFinish

ConnectNext ==
  Connect \/ Worker \/ WorkerAnnounce \/ RawCall(1) \/ Dispatcher \/ Monitor \/ Disconnect

\* The host before Connect, beside a worker pool as create() leaves it
InitConnect == ConnectInit /\ PoolInit /\ wire = NoWire /\ ds = NoDatabase

ConnectSpec == InitConnect /\ [][ConnectNext]_vars

\* One Sybase value through its connections: Connect, Raw calls, the user's Disconnect,
\* Connect again. The worker only announces itself, and the readers only see their
\* streams end.
SessionNext ==
  \/ Connect
  \/ WorkerAnnounce
  \/ Caller
  \/ DiscEnter("user")
  \/ DisconnectRun("user")
  \/ HRScan
  \/ HEScan

SessionSpec == InitConnect /\ [][SessionNext]_vars

----------------------------------------------------------------------------
(* The public package: a Database made by Connect or ConnectWithConfigs, and one
   RawQuery, Query or Exec on it. Its Raw call is the activation of caller 1. *)

Entries == {"Connect", "ConnectWithConfigs"}
Calls == {"RawQuery", "Query", "Exec"}

\* response.Results as Query ranges over it: the rows by their position
ResultsOf(n) == [i \in 1..n |-> i]

\* The entry point has made its Sybase value and is in sybaseDatabase.Connect()
DatabaseInit ==
  ds \in {[pc |-> "connecting", entry |-> e, Connected |-> FALSE, call |-> "none",
           ret |-> "none", results |-> <<>>, delivered |-> <<>>, failedAt |-> 0] :
          e \in Entries}

\* connErr := sybaseDatabase.Connect()
DatabaseConnect ==
  /\ ds.pc = "connecting"
  /\ cn.pc # "done"
  /\ Connect

\* if connErr != nil { return nil, connErr }; Connect returns &Database{db, Connected:
\* true}, ConnectWithConfigs returns &Database{db}
DatabaseOpened ==
  /\ ds.pc = "connecting"
  /\ cn.pc = "done"
  /\ ds' = IF cn.ret = "nil"
             THEN [ds EXCEPT !.pc = "ready", !.Connected = (ds.entry = "Connect")]
             ELSE [ds EXCEPT !.pc = "failed"]
  /\ UNCHANGED <<bvars, wire, pvars>>

\* RawQuery / Query / Exec: if !ds.Connected { return errors.New("Database isn't
\* connected") }, else ds.db.Raw(query)
DatabaseCall ==
  /\ ds.pc = "ready"
  /\ \E op \in Calls :
       ds' = IF ds.Connected
               THEN [ds EXCEPT !.pc = "raw", !.call = op]
               ELSE [ds EXCEPT !.pc = "returned", !.call = op, !.ret = "errNotConnected"]
  /\ UNCHANGED <<bvars, wire, pvars>>

\* response, err := ds.db.Raw(query)
DatabaseRaw ==
  /\ ds.pc = "raw"
  /\ RawCall(1)

\* Raw has returned: an error is wrapped and returned; RawQuery and Exec return the
\* response; Query goes on to range over response.Results, MaxResults rows at most
DatabaseRawReturned ==
  /\ ds.pc = "raw"
  /\ cpc[1] = "done"
  /\ IF cret[1] \notin {"okEmpty", "okRows"}
       THEN ds' = [ds EXCEPT !.pc = "returned", !.ret = "errQuery"]
       ELSE IF ds.call # "Query"
         THEN ds' = [ds EXCEPT !.pc = "returned", !.ret = "ok"]
         ELSE \E n \in 0..(IF cret[1] = "okRows" THEN MaxResults ELSE 0) :
                ds' = IF n = 0
                        THEN [ds EXCEPT !.pc = "returned", !.ret = "nil"]
                        ELSE [ds EXCEPT !.pc = "iterate", !.results = ResultsOf(n)]
  /\ UNCHANGED <<bvars, wire, pvars>>

\* A Query that goes on to the next row after the callback returned an error
QueryCallbackGoesOn ==
  /\ ds.pc = "iterate"
  /\ \E callErr \in BOOLEAN :
       LET delivered == Append(ds.delivered, ds.results[Len(ds.delivered) + 1])
           failedAt == IF callErr /\ ds.failedAt = 0 THEN Len(delivered) ELSE ds.failedAt
       IN  ds' = IF Len(delivered) = Len(ds.results)
                   THEN [ds EXCEPT !.pc = "returned", !.delivered = delivered,
                                   !.failedAt = failedAt,
                                   !.ret = IF failedAt # 0 THEN "callErr" ELSE "nil"]
                   ELSE [ds EXCEPT !.delivered = delivered, !.failedAt = failedAt]
  /\ UNCHANGED <<bvars, wire, pvars>>

\* for _, result := range response.Results { callErr := callback(result); if callErr !=
\* nil { return callErr } }; return nil. delivered is what the callback has been given,
\* failedAt the position of the row for which it returned an error.
QueryCallback ==
  /\ ds.pc = "iterate"
  /\ \E callErr \in BOOLEAN :
       LET delivered == Append(ds.delivered, ds.results[Len(ds.delivered) + 1]) IN
         ds' = IF callErr
                 THEN [ds EXCEPT !.pc = "returned", !.delivered = delivered,
                                 !.failedAt = Len(delivered), !.ret = "callErr"]
                 ELSE IF Len(delivered) = Len(ds.results)
                   THEN [ds EXCEPT !.pc = "returned", !.delivered = delivered,
                                   !.ret = "nil"]
                   ELSE [ds EXCEPT !.delivered = delivered]
  /\ UNCHANGED <<bvars, wire, pvars>>

\* Beside the Database: the worker announces itself and answers, and the dispatch loop
\* delivers. Nobody calls Disconnect.
DatabaseNext ==
  \/ DatabaseConnect
  \/ DatabaseOpened
  \/ DatabaseCall
  \/ DatabaseRaw
  \/ DatabaseRawReturned
  \/ QueryCallback
  \/ WorkerAnnounce
  \/ WorkerRespond
  \/ Dispatcher

InitDatabase == ConnectInit /\ PoolInit /\ wire = NoWire /\ DatabaseInit

DatabaseSpec == InitDatabase /\ [][DatabaseNext]_vars


----------------------------------------------------------------------------
(* The bridge and its worker together: the requests the worker reads are the ones Raw
   wrote, and what the worker writes is what its code writes. Raw sends every request
   with transId -1, so each one runs as an ExecSQLCallable. *)

\* EncodedLogger.log / logError / logException: System.err.println(message.getBytes()),
\* the array's identity and no prefix
EncodedLoggerLine == "other"

\* What a worker step that calls EncodedLogger does to the error stream: with the log
\* flag set its output starts with an EncodedLoggerLine (one line stands for all of the
\* step's calls), without it nothing is written. Every request makes two such steps.
EncodedLog ==
  IF logs
    THEN /\ errq' = Append(errq, EncodedLoggerLine)
         /\ nerr' = nerr + 1
    ELSE UNCHANGED <<errq, nerr>>

\* The request ids the worker has taken from its input stream
ReadIds ==
  {queue[i].msgId : i \in 1..Len(queue)} \cup {treq[t].msgId : t \in Threads}
    \cup {r.msgId : r \in ran}

\* startReadLoop / processInputLine / Main.sqlRequest / execSQL on a line Raw wrote:
\* "Processing raw input" is logged and the callable submitted
ServeRead ==
  /\ Running
  /\ cmd = "running"
  /\ ~halted
  /\ \E id \in sent \ ReadIds :
       queue' = Append(queue, [msgId |-> id, transId |-> NoTransaction,
                               finishTrans |-> TRUE, gen |-> 0])
  /\ nread' = nread + 1
  /\ EncodedLog
  /\ UNCHANGED <<connected, mu, queryCount, currentQueries, stdin, stdout, stderr,
                 cmd, chans, cpc, cid, cresp, cret, hr, he, disc, panicked, sent,
                 everRegistered, outq, nlines, logs, cn>>
  /\ UNCHANGED <<availableConnections, activeTransactionConnections, nextConn,
                 closedConns, halted, gen, tpc, treq, tconn, terr, trb, wout, executed,
                 released, lastConn, lastFin, since, relResult, ran, hikariActive, wire, ds>>

\* createCallable and the executor hand the callable to a thread
ServeTake(t) ==
  /\ Running
  /\ cmd = "running"
  /\ TakeTask(t)

\* getConnection on the way to the statement
ServeGet(t) ==
  /\ Running
  /\ cmd = "running"
  /\ ThreadQueryGet(t)

\* getConnection timed out: the catch block logs "Error executing query"
ServeTimeout(t) ==
  /\ Running
  /\ cmd = "running"
  /\ QueryTimesOut(t)
  /\ ran' = ran \cup {[msgId |-> treq[t].msgId, rejected |-> TRUE]}
  /\ EncodedLog
  /\ UNCHANGED <<connected, mu, queryCount, currentQueries, stdin, stdout, stderr,
                 cmd, chans, cpc, cid, cresp, cret, hr, he, disc, panicked, sent,
                 everRegistered, outq, nlines, logs, cn, wire, ds>>

\* The statement with the driver accepting or rejecting it: the catch block puts the
\* error in the response and logs; either way the response is returned to the dropped
\* Future and the output stream is not written
ServeQuery(t) ==
  /\ Running
  /\ cmd = "running"
  /\ RunQuery(t)
  /\ \E rejected \in BOOLEAN :
       ran' = ran \cup {[msgId |-> treq[t].msgId, rejected |-> rejected]}
  /\ EncodedLog
  /\ UNCHANGED <<connected, mu, queryCount, currentQueries, stdin, stdout, stderr,
                 cmd, chans, cpc, cid, cresp, cret, hr, he, disc, panicked, sent,
                 everRegistered, outq, nlines, logs, cn, wire, ds>>

ServeWorker ==
  ServeRead \/ \E t \in Threads : ServeTake(t) \/ ServeGet(t) \/ ServeTimeout(t) \/ ServeQuery(t)

\* No line reaches handleResponses, which leaves its loop when the stream is closed
ServeNext ==
  Caller \/ HRScan \/ Monitor \/ DiscEnter("mon") \/ DisconnectRun("mon") \/ ServeWorker

InitServe == AfterConnect /\ logs \in BOOLEAN /\ PoolInit /\ wire = NoWire /\ ds = NoDatabase

ServeSpec == InitServe /\ [][ServeNext]_vars

\* The executor runs every thread that has work, and a thread that holds a connection
\* finishes its statement. Nothing obliges the host to send a request, and a wait for a
\* connection need not last until its timeout.
QueryThread(t) == ServeTake(t) \/ ServeGet(t) \/ ServeQuery(t)

FairServeSpec == ServeSpec /\ \A t \in Threads : WF_vars(QueryThread(t))

(***************************************************************************)
(* Connect against the worker's own start: Main's constructor              *)
(***************************************************************************)

\* No worker process has run its constructor
NoProcess == [stage |-> "none", proc |-> 0]

\* The process Connect started last has not run its constructor yet
NotStarted == cmd = "running" /\ wire.proc # cn.calls

\* The process Connect started last has both pools and reads requests
Started == cmd = "running" /\ wire.stage = "ready" /\ wire.proc = cn.calls

\* logConnectionSuccess: EncodedLogger.log("Connected to ..."); EncodedLogger.log("Ready
\* to process SQL requests"): System.err.println, and only when log is set
LogConnectionSuccess ==
  IF logs
    THEN /\ errq' = errq \o <<EncodedLoggerLine, EncodedLoggerLine>>
         /\ nerr' = nerr + 2
    ELSE UNCHANGED <<errq, nerr>>

\* new Main(properties): validateDatabaseCredentials and initializeDatabase, which exit
\* when the credentials or the pools fail (logError: one line of stderr when log is
\* set), then logConnectionSuccess and startInputProcessing. Nothing is written to the
\* output stream.
WorkerMain ==
  /\ Running
  /\ NotStarted
  /\ \/ /\ wire' = [stage |-> "ready", proc |-> cn.calls]
        /\ LogConnectionSuccess
        /\ cmd' = cmd
     \/ /\ wire' = [stage |-> "exit", proc |-> cn.calls]
        /\ EncodedLog
        /\ cmd' = "dead"
  /\ UNCHANGED <<connected, mu, queryCount, currentQueries, stdin, stdout, stderr,
                 chans, cpc, cid, cresp, cret, hr, he, disc, panicked, sent,
                 everRegistered, outq, nlines, logs, cn>>
  /\ UNCHANGED <<ds, pvars>>

\* startInputProcessing: the worker answers a request it has read. Requests reach it
\* once Connect has returned nil.
WorkerServe ==
  /\ Running
  /\ Started
  /\ cn.pc = "done" /\ cn.ret = "nil"
  /\ nlines < MaxLines
  /\ \E id \in sent, e \in BOOLEAN :
       outq' = Append(outq, Response(nlines + 1, id, IF e THEN 0 ELSE 1, e))
  /\ nlines' = nlines + 1
  /\ UNCHANGED <<connected, mu, queryCount, currentQueries, stdin, stdout, stderr,
                 cmd, chans, cpc, cid, cresp, cret, hr, he, disc, panicked, sent,
                 everRegistered, errq, nerr, logs, cn>>
  /\ UNCHANGED <<wire, ds, pvars>>

StartupNext ==
  \/ Connect
  \/ WorkerMain
  \/ WorkerServe
  \/ Caller
  \/ Dispatcher
  \/ Monitor
  \/ DiscEnter("mon")
  \/ DisconnectRun("mon")

InitStartup == ConnectInit /\ PoolInit /\ wire = NoProcess /\ ds = NoDatabase

StartupSpec == InitStartup /\ [][StartupNext]_vars

\* Connect's goroutine and the worker's main thread go on while they can
FairStartupSpec == StartupSpec /\ WF_vars(Connect) /\ WF_vars(WorkerMain)

----------------------------------------------------------------------------
(* Claims about the bridge *)

\* The response lines a caller holds: the one Raw received and those in its channel
Delivered(c) ==
  (IF cresp[c].kind = "json" THEN {cresp[c]} ELSE {})
    \cup {chans[c].buf[i] : i \in 1..Len(chans[c].buf)}

\* C1: a caller only receives a response whose msgId is the id it registered, and no
\* response line reaches two callers, in whatever order the lines arrive.
C1_NoCrossDelivery ==
  /\ \A c \in Callers : \A r \in Delivered(c) : r.msgId = cid[c]
  /\ \A c1, c2 \in Callers :
       c1 # c2 => {r.line : r \in Delivered(c1)} \cap {r.line : r \in Delivered(c2)} = {}

\* Two callers have each received a response, the later request answered first.
C1_Witness ==
  \E c1, c2 \in Callers :
    /\ cresp[c1].kind = "json" /\ cresp[c2].kind = "json"
    /\ cid[c1] < cid[c2]
    /\ cresp[c1].line > cresp[c2].line

\* Raw is blocked in resp := <-respChan
Blocked(c) == cpc[c] = "recv" /\ chans[c].buf = <<>> /\ ~chans[c].closed

\* C2: every Raw call that awaits its response eventually returns (a result or an
\* error), whatever the worker does.
C2_RawEventuallyReturns ==
  \A c \in Callers : (cpc[c] = "recv") ~> (cpc[c] = "done")

\* C3: when a Disconnect that found the bridge connected returns, the waiter table is
\* empty and no Raw call is blocked on its channel, whatever the closes and the kill
\* returned.
C3_DisconnectReleasesWaiters ==
  [][\A t \in DiscThreads :
       (disc[t].pc # "ret" /\ disc'[t].pc = "ret" /\ disc'[t].err # "notConnected")
         => /\ currentQueries' = << >>
            /\ \A c \in Callers : ~Blocked(c)']_vars

\* C4: a Raw call whose channel was closed by Disconnect (it received no response)
\* returns an error, never a successful result.
C4_ReleasedCallerGetsError ==
  \A c \in Callers :
    cresp[c].kind = "zero" => cret[c] \notin {"okEmpty", "okRows"}

\* C5: once the worker process has exited and both readers have seen the end of their
\* streams while a Raw call awaits its response, the bridge is torn down and the call
\* is not left blocked.
C5_WorkerDeathIsFatal ==
  \A c \in Callers :
    (cmd = "dead" /\ hr.pc = "exit" /\ he.pc = "exit" /\ cpc[c] = "recv")
      => (~connected /\ ~Blocked(c))

\* C6: a request id is written to the worker's input stream only after its waiter was
\* put in the table, so the dispatch loop never holds a response for an id that was
\* never registered.
C6_RegisteredBeforeWritten ==
  [][/\ \A id \in sent' \ sent : id \in everRegistered
     /\ (hr'.line.kind = "json" /\ hr'.line.msgId # 0) => hr'.line.msgId \in everRegistered]_vars

\* A response has been dispatched to the waiter of a blocked Raw call.
C6_Witness ==
  \E c \in Callers : cpc[c] = "recv" /\ chans[c].buf # <<>> /\ cid[c] \in sent

\* handleErrors gets control back from the s.Disconnect() it called, which went past its
\* connected check
MonitorDisconnected ==
  he.pc = "disconnect" /\ he'.pc = "scan" /\ disc["mon"].err # "notConnected"

\* C16: the Disconnect that handleErrors runs for a line without a recognized prefix is
\* a full disconnect: when it has returned the connected flag is false, the three
\* streams are closed, the worker is killed, the waiter table is empty and no caller is
\* blocked.
C16_UnrecognizedLineDisconnects ==
  [][MonitorDisconnected =>
       /\ ~connected'
       /\ stdin' = "closed" /\ stdout' = "closed" /\ stderr' = "closed"
       /\ cmd' = "dead"
       /\ currentQueries' = << >>
       /\ \A c \in Callers : ~Blocked(c)']_vars

\* The prefixes EncodedLogger defines: ERROR_PREFIX, EXCEPTION_PREFIX, LOG_PREFIX
LoggerPrefixes == {"JAVAERROR:", "JAVAEXCEPTION:", "JAVALOG:"}

\* handleErrors takes a line of the error stream while the bridge is connected
MonitorReads(k) ==
  he.pc = "scan" /\ errq # <<>> /\ errq' = Tail(errq) /\ Head(errq) = k /\ connected

\* C17: a line of the error stream that starts with one of the three diagnostic prefixes
\* never makes handleErrors call Disconnect.
C17_DiagnosticNeverFatal ==
  [][\A k \in LoggerPrefixes : MonitorReads(k) => he'.pc # "disconnect"]_vars

\* Connect returns
ConnectReturns(e) == cn' # cn /\ cn'.pc = "done" /\ cn'.ret = e

\* C18: without logs Connect decides on the first line of the worker's output stream
\* alone: it sets connected only when that line confirms the startup, and returns an
\* error, with the bridge not connected and no reader started, when the line does not
\* confirm it or the stream ends before a line. With logs Connect never waits for a line.
C18_HandshakeGatesConnect ==
  [][/\ (~logs /\ ~connected /\ connected') => cn.seen = "created"
     /\ (cn.pc = "handshake" /\ cn' # cn) =>
          /\ ~logs
          /\ IF outq = <<>> THEN ConnectReturns("errRead")
             ELSE IF Confirms(Head(outq)) THEN cn'.pc = "finish" /\ cn'.seen = "created"
             ELSE ConnectReturns("errFailed")
     /\ (ConnectReturns("errRead") \/ ConnectReturns("errFailed")) =>
          /\ ~connected'
          /\ hr'.pc = "off" /\ he'.pc = "off"
          /\ mu' = Free
     /\ logs => (cn'.pc # "handshake" /\ cn'.seen = "none")]_vars

\* Without logs the worker's first line did not confirm the startup: Connect returned the
\* error, the bridge is not connected, no reader runs and the worker is still running.
C18_Witness ==
  /\ ~logs
  /\ cn.pc = "done" /\ cn.ret = "errFailed" /\ cn.seen = "other"
  /\ ~connected
  /\ hr.pc = "off" /\ he.pc = "off"
  /\ cmd = "running"

----------------------------------------------------------------------------
(* Claims about the transaction-affinity pool *)

\* C7: all statements of one transaction (same transaction id, up to the request that
\* carries the finish flag) run on the same connection, in every thread interleaving.
C7_TransactionAffinity ==
  \A e1, e2 \in executed :
    (e1.transId = e2.transId /\ e1.gen = e2.gen) => e1.conn = e2.conn

\* A request of the transaction id is queued or being run by a thread
Pending(tid) ==
  \/ \E i \in 1..Len(queue) : queue[i].transId = tid
  \/ \E t \in Threads : tpc[t] # "idle" /\ treq[t].transId = tid

\* C11: once every request read for a transaction id has been run, the last of them
\* carrying the finish flag, no connection is mapped to that id.
C11_ReleasedWhenFinished ==
  \A tid \in Tids :
    (lastFin[tid] /\ ~Pending(tid)) => tid \notin DOMAIN activeTransactionConnections

\* A thread leaves getConnection
GetStep(t) == tpc[t] = "get" /\ tpc'[t] # "get"

\* A thread leaves cleanupResources having called releaseConnection
ReleaseStep(t) == tpc[t] = "cleanup" /\ tpc'[t] # "cleanup" /\ treq[t].finishTrans

\* C8: getConnection(tid) called again with no releaseConnection(tid) since the call
\* before returns the same connection and changes neither the spare list nor the map.
C8_GetConnectionIdempotent ==
  [][\A t \in Threads :
       (GetStep(t) /\ lastConn[treq[t].transId] # NoConn)
         => /\ tconn'[t] = lastConn[treq[t].transId]
            /\ UNCHANGED <<availableConnections, activeTransactionConnections>>]_vars

\* Two threads hold the connection of one transaction id: the second getConnection
\* returned what the first had returned.
C8_Witness ==
  \E t1, t2 \in Threads :
    /\ t1 # t2
    /\ tpc[t1] \in {"exec", "running"} /\ tpc[t2] \in {"exec", "running"}
    /\ treq[t1].transId = treq[t2].transId
    /\ tconn[t1] = tconn[t2]
    /\ tconn[t1] # NoConn

\* C9: releaseConnection(tid) leaves tid unmapped, and getConnection never returns a
\* connection that releaseConnection removed or that was closed.
C9_ReleasedNotReused ==
  [][\A t \in Threads :
       /\ ReleaseStep(t) => treq[t].transId \notin DOMAIN activeTransactionConnections'
       /\ (GetStep(t) /\ tconn'[t] # NoConn) =>
            /\ tconn'[t] \notin closedConns
            /\ \A r \in released : r.conn # tconn'[t]]_vars

\* A transaction id was released and is mapped again, to another connection.
C9_Witness ==
  \E r \in released :
    /\ r.transId \in DOMAIN activeTransactionConnections
    /\ activeTransactionConnections[r.transId] # r.conn

\* The connections held in the map
Dedicated == {activeTransactionConnections[k] : k \in DOMAIN activeTransactionConnections}

\* The connections in the spare list
Spare == {availableConnections[i] : i \in 1..Len(availableConnections)}

\* C10: no connection is mapped by two transaction ids, none is both spare and
\* dedicated, and the spare list holds no connection twice.
C10_PoolPartition ==
  /\ \A k1, k2 \in DOMAIN activeTransactionConnections :
       activeTransactionConnections[k1] = activeTransactionConnections[k2] => k1 = k2
  /\ Spare \cap Dedicated = {}
  /\ Cardinality(Spare) = Len(availableConnections)

\* A transaction holds a connection created on demand while a replenished spare one
\* is ready.
C10_Witness ==
  /\ \E k \in DOMAIN activeTransactionConnections :
       activeTransactionConnections[k] > TransactionConnections
  /\ availableConnections # <<>>

\* C12: the open transactional connections, spare and dedicated together, never number
\* more than the configured transactional pool size, however many transaction ids are open.
C12_ConnectionCountBounded ==
  Len(availableConnections) + Cardinality(DOMAIN activeTransactionConnections)
    <= TransactionConnections

\* A thread's releaseConnection ends the transaction that the last mapping getConnection
\* began, with no other change of the pool in between
RoundTrip(t) ==
  /\ ReleaseStep(t)
  /\ since.tid = treq[t].transId
  /\ ~since.released
  /\ treq[t].transId \in DOMAIN activeTransactionConnections

\* The driver created the replacement connection if releaseConnection asked for one
Replaced == nextConn' # nextConn \/ Len(availableConnections) >= TransactionConnections

\* C13 as stated: getConnection(tid) for an unmapped tid, statements, releaseConnection(tid)
\* leave the dedicated count and the total of spare and dedicated as they were before the
\* getConnection, also when the spare list was empty (the driver refusing no connection).
C13_CountRestored ==
  [][\A t \in Threads :
       (RoundTrip(t) /\ Replaced) =>
         /\ Cardinality(DOMAIN activeTransactionConnections') = since.active
         /\ Cardinality(DOMAIN activeTransactionConnections') + Len(availableConnections')
              = since.active + since.available]_vars

\* C13 amended: the round trip restores the dedicated count; the spare list ends with what
\* the getConnection left of it (one less, or nothing if it was empty) plus the replacement
\* connection if one was created, so the total is restored only when the spare list was not
\* empty and the replacement was created, and is one higher when the spare list was empty.
C13_CountAfterRoundTrip ==
  [][\A t \in Threads :
       RoundTrip(t) =>
         /\ Cardinality(DOMAIN activeTransactionConnections') = since.active
         /\ Len(availableConnections')
              = (IF since.available > 0 THEN since.available - 1 ELSE 0)
                + (IF nextConn' # nextConn THEN 1 ELSE 0)]_vars

\* A round trip that began with an empty spare list has ended with a replacement in it:
\* one connection more than before.
C13_Witness ==
  /\ since.released
  /\ since.available = 0
  /\ Len(availableConnections) + Cardinality(DOMAIN activeTransactionConnections)
       = since.active + 1

\* C14: releaseConnection(tid) on a mapped tid removes the mapping and closes the
\* connection; it appends one fresh connection to the spare list exactly when the list is
\* shorter than the configured size and the driver creates the connection; when the driver
\* refuses, the spare list is unchanged, the mapping stays removed and no error is raised
\* (only a failing close() is).
C14_ReleaseReplenishes ==
  [][\A t \in Threads :
       (ReleaseStep(t) /\ treq[t].transId \in DOMAIN activeTransactionConnections) =>
         /\ treq[t].transId \notin DOMAIN activeTransactionConnections'
         /\ relResult'.raised
              = (activeTransactionConnections[treq[t].transId] \notin closedConns')
         /\ IF Len(availableConnections) < TransactionConnections /\ ~relResult'.refused
              THEN /\ availableConnections' = Append(availableConnections, nextConn)
                   /\ nextConn \notin Spare \cup Dedicated \cup closedConns
              ELSE availableConnections' = availableConnections
         /\ relResult'.refused => Len(availableConnections) < TransactionConnections]_vars

\* A release has just completed although the driver refused the replacement: the mapping
\* is gone, the connection closed, the spare list still short and no error raised.
C14_Witness ==
  /\ since.released
  /\ relResult.refused
  /\ ~relResult.raised
  /\ since.tid \notin DOMAIN activeTransactionConnections
  /\ Len(availableConnections) < TransactionConnections

\* The request a thread runs failed in statement.execute or while its results were read
StatementFailed(t) == terr[t] = "exception" /\ tconn[t] # NoConn

\* A thread runs cleanupResources
CleanupStep(t) == tpc[t] = "cleanup" /\ tpc'[t] # "cleanup"

\* C15: when a statement of a transactional request fails, rollback() has been called on
\* its connection before cleanupResources runs, and when the request carries the finish
\* flag cleanupResources removes the mapping and replenishes the spare list also after a
\* rollback that failed.
C15_RollbackBeforeCleanup ==
  [][\A t \in Threads :
       (CleanupStep(t) /\ StatementFailed(t)) =>
         /\ trb[t] \in {"done", "failed"}
         /\ treq[t].finishTrans =>
              /\ treq[t].transId \notin DOMAIN activeTransactionConnections'
              /\ ( /\ treq[t].transId \in DOMAIN activeTransactionConnections
                   /\ Len(availableConnections) < TransactionConnections
                   /\ ~relResult'.refused )
                   => availableConnections' = Append(availableConnections, nextConn)]_vars

\* A finishing request whose statement failed and whose rollback failed has been through
\* cleanupResources: its connection was released and a replacement is in the spare list.
C15_Witness ==
  \E t \in Threads :
    /\ tpc[t] = "respond"
    /\ StatementFailed(t)
    /\ trb[t] = "failed"
    /\ treq[t].finishTrans
    /\ [transId |-> treq[t].transId, conn |-> tconn[t]] \in released
    /\ treq[t].transId \notin DOMAIN activeTransactionConnections
    /\ since.tid = treq[t].transId /\ since.released
    /\ ~relResult.refused
    /\ availableConnections # <<>>

\* json.Unmarshal into QueryResponse: MsgID is filled from the key "msgId" and stays 0
\* when the line has no such key
DecodeMsgID(line) == IF line.key = "msgId" THEN line.id ELSE 0

\* C19: the host decodes, from every response line the worker wrote for request N, the
\* message id N.
C19_MsgIdRecovered ==
  \A l \in wout : DecodeMsgID(l) = l.id

\* A thread ends the callable of its request
DoneStep(t) == tpc[t] # "idle" /\ tpc'[t] = "idle"

\* C20: a thread that ends the callable of a request, transactional or not, has written
\* exactly one response line for it, whose error field is set when the request failed.
C20_EveryRequestAnswered ==
  [][\A t \in Threads :
       DoneStep(t) =>
         \E l \in wout' :
           /\ l.id = treq[t].msgId
           /\ wout' \ wout = {l}
           /\ (terr[t] # "none") = (l.error # "none")]_vars

----------------------------------------------------------------------------
(* Claims about the encodings on the wire *)

\* C21: the request the worker parses from the line the host marshalled has the msgId,
\* the transaction id and the finish-transaction flag of the host's QueryRequest.
C21_RequestRoundTrip ==
  wire.stage = "parsed" =>
    /\ wire.parsed.valid
    /\ wire.parsed.msgId = wire.req.MsgID
    /\ wire.parsed.transId = wire.req.TransID
    /\ wire.parsed.finishTrans = wire.req.FinishTrans

\* The number of rows in the result sets before the i-th
RECURSIVE RowsBefore(_, _)
RowsBefore(sets, i) ==
  IF i <= 1 THEN 0 ELSE RowsBefore(sets, i - 1) + Len(sets[i - 1])

C23_ErrorTextIsError ==
  (wire.stage = "returned" /\ wire.error # "") =>
    /\ ~wire.ret.ok
    /\ wire.ret.error = wire.error
    /\ wire.ret.rows = <<>>

----------------------------------------------------------------------------
(* Claims about the bridge and its worker together *)

\* An error response for request id is in the worker's output, with the dispatch loop,
\* in the waiter's channel or in the hands of the Raw call
ErrorResponseFor(id) ==
  \/ \E i \in 1..Len(outq) : outq[i].msgId = id /\ outq[i].err
  \/ hr.line.msgId = id /\ hr.line.err
  \/ \E c \in Callers :
       /\ cid[c] = id
       /\ \/ \E i \in 1..Len(chans[c].buf) : chans[c].buf[i].msgId = id /\ chans[c].buf[i].err
          \/ cresp[c].msgId = id /\ cresp[c].err

\* C24: once the worker has run a request whose statement the driver rejected, an error
\* response for that request id is on its way to the caller or with it, and the bridge
\* is still connected (nobody calls Disconnect here but the bridge itself), whatever the
\* log flag
C24_RejectedSqlAnsweredAndSurvived ==
  \A r \in ran : r.rejected => ErrorResponseFor(r.msgId) /\ connected

\* The request with this id has been read and has not left the executor
InFlight(id) ==
  \/ \E i \in 1..Len(queue) : queue[i].msgId = id
  \/ \E t \in Threads : treq[t].msgId = id

\* The callable of the request with this id has returned
Returned(id) == \E r \in ran : r.msgId = id

----------------------------------------------------------------------------
(* Claims about the dispatch loop and Disconnect *)

\* The waiter of this id has been sent a response: it is in the channel's buffer or the
\* Raw call has received it
Fulfilled(id) ==
  \E c \in Callers :
    cid[c] = id /\ (chans[c].buf # <<>> \/ cresp[c].kind = "json")

\* handleResponses is in ch <- resp with the mutex held and the buffer full
DispatchWaits ==
  /\ hr.pc = "dispatch"
  /\ mu = HRHolder
  /\ \E c \in Lookup(hr.line.msgId) : ~chans[c].closed /\ Len(chans[c].buf) >= ChanCap

\* C26: with a response line for an id whose waiter was already sent one, the dispatch
\* loop does not wait in its send with the waiter-table mutex held: the line is dropped
\* and the loop goes on
C26_DuplicateNeverBlocksDispatch ==
  (hr.pc = "dispatch" /\ Fulfilled(hr.line.msgId)) => ~DispatchWaits

\* handleResponses, the bridge connected, takes a line that json.Unmarshal rejects (or a
\* JAVALOG: line) from the stream
DropsJunk ==
  /\ hr.pc = "scan" /\ connected
  /\ outq # <<>> /\ Head(outq).kind # "json"
  /\ outq' = Tail(outq)

\* handleResponses leaves its lookup with a response whose id has no waiter in the table
DropsUnknown ==
  /\ hr.pc = "dispatch" /\ hr'.pc # "dispatch"
  /\ hr.line.msgId \notin DOMAIN currentQueries

\* C27: a line that is no JSON and a response whose id has no registered waiter are
\* dropped: no channel is sent anything, the waiter table and the connected flag stay as
\* they are, and the dispatch loop is back at its scanner with the mutex free
C27_DroppedLineChangesNothing ==
  [][(DropsJunk \/ DropsUnknown)
       => /\ UNCHANGED <<chans, currentQueries, connected, cresp>>
          /\ hr'.pc = "scan"
          /\ mu' = Free]_vars

\* The first line of the worker's output reached nobody and the second one has been
\* received by the Raw call that waited for it
C27_Witness ==
  /\ \A c \in Callers : \A r \in Delivered(c) : r.line # 1
  /\ \E c \in Callers : cresp[c].kind = "json" /\ cresp[c].line = 2

\* Disconnect is called by t and goes past its first statement
DisconnectCalled(t) ==
  /\ disc[t].pc \in {"idle", "start"}
  /\ disc'[t].pc \notin {"idle", "start"}

\* C28: Disconnect called on a bridge whose connected flag is already false returns at
\* once with "Database isn't connected": it takes no lock, closes no stream, kills no
\* process, closes no channel, leaves the waiter table alone and does not panic
C28_DisconnectAgainChangesNothing ==
  [][\A t \in DiscThreads :
       (DisconnectCalled(t) /\ ~connected)
         => /\ disc'[t] = [pc |-> "ret", locked |-> FALSE, err |-> "notConnected"]
            /\ UNCHANGED <<connected, mu, queryCount, currentQueries, stdin, stdout,
                           stderr, cmd, chans, panicked>>]_vars

\* One Disconnect has torn the bridge down and returned nil, and another one has
\* returned "Database isn't connected"
C28_Witness ==
  \E t1, t2 \in DiscThreads :
    /\ disc[t1].pc = "ret" /\ disc[t1].err = "nil"
    /\ disc[t2].pc = "ret" /\ disc[t2].err = "notConnected"
    /\ cmd = "dead" /\ currentQueries = << >> /\ ~panicked

\* The goroutine that takes this step has the mutex while it takes it: the step is a
\* critical section entered with the mutex free, or a step of the Disconnect that holds it
StepHoldsMutex ==
  \/ mu = Free
  \/ \E t \in DiscThreads : disc'[t] # disc[t] /\ mu = DiscHolder(t)

\* C29: the waiter table and the connected flag are only written by a goroutine that
\* holds the bridge mutex
C29_WritesUnderMutex ==
  [][(connected' # connected \/ currentQueries' # currentQueries) => StepHoldsMutex]_vars

----------------------------------------------------------------------------
(* Claims about request ids *)

\* A Raw call between the registration of its waiter and its deferred delete
Registered(c) == cpc[c] \in {"send", "recv", "defer"}

\* C30: the id a Raw call takes is positive and greater than every id taken before on
\* this bridge, whatever Connect and Disconnect calls lie between; so it is no key of the
\* waiter table, and no two Raw calls between registration and return hold the same id
C30_IdsIncreaseAcrossConnects ==
  /\ [][\A c \in Callers :
          cid'[c] # cid[c]
            => /\ cid'[c] > 0
               /\ \A id \in everRegistered : cid'[c] > id
               /\ cid'[c] \notin DOMAIN currentQueries]_vars
  /\ [](\A c1, c2 \in Callers :
          (c1 # c2 /\ Registered(c1) /\ Registered(c2)) => cid[c1] # cid[c2])

\* The bridge was connected, a Raw call took id 1, the user disconnected, Connect
\* returned nil a second time and a Raw call has taken id 2 and written its request to
\* the new worker
C30_Witness ==
  /\ cn.calls = 2 /\ cn.ret = "nil" /\ connected
  /\ disc["user"].pc = "ret" /\ disc["user"].err = "nil"
  /\ 1 \in everRegistered
  /\ 2 \in DOMAIN currentQueries /\ 2 \in sent

----------------------------------------------------------------------------
(* Claims about the public package *)

\* C31: a Database that Connect or ConnectWithConfigs returned without an error takes
\* RawQuery, Query and Exec calls: none returns "Database isn't connected" while nobody
\* has called Disconnect
C31_OpenedDatabaseAcceptsCalls ==
  (ds.pc = "returned" /\ cn.ret = "nil") => ds.ret # "errNotConnected"

\* The rows 1..n of response.Results
FirstRows(n) == SubSeq(ds.results, 1, n)

\* C33: Query gives the callback the rows in their order, one at a time and never one
\* again; when the callback returns an error for a row, Query returns that error with
\* that row the last one given, and a Query that returned nil has given every row
C33_QueryStopsAtCallbackError ==
  /\ [](ds.pc \in {"iterate", "returned"} /\ ds.call = "Query"
          => /\ ds.delivered = FirstRows(Len(ds.delivered))
             /\ ds.failedAt # 0 =>
                  /\ ds.pc = "returned" /\ ds.ret = "callErr"
                  /\ Len(ds.delivered) = ds.failedAt
             /\ (ds.pc = "returned" /\ ds.ret = "nil") =>
                  ds.failedAt = 0 /\ ds.delivered = ds.results)
  /\ [][ds.pc = "iterate" =>
          \/ ds' = ds
          \/ /\ Len(ds'.delivered) = Len(ds.delivered) + 1
             /\ ds'.results = ds.results]_vars
  /\ [][ds.pc = "returned" => ds' = ds]_vars

\* The callback took the first row, returned an error for the second, and Query
\* returned that error with a third row never given
C33_Witness ==
  /\ ds.pc = "returned" /\ ds.ret = "callErr"
  /\ ds.failedAt = 2
  /\ ds.delivered = <<1, 2>>
  /\ Len(ds.results) = 3

(***************************************************************************)
(* Claims about launching the worker                                       *)
(***************************************************************************)

\* C32: when the configuration names a properties file and that file exists, the worker
\* is launched with that path as its single argument; otherwise it is launched with the
\* thirteen scalar parameters in their order
C32_LaunchModeFollowsFile ==
  wire.stage \in {"command", "main"} =>
    wire.args = IF /\ wire.config.TdsProperties # ""
                   /\ FileExists(wire.config.TdsProperties, wire.files)
                  THEN <<wire.config.TdsProperties>>
                  ELSE ScalarArgs(wire.config)

(***************************************************************************)
(* Claims about closing the waiters' channels                              *)
(***************************************************************************)

\* C34: whatever the order of a Disconnect by the user, a Disconnect by the monitor, the
\* dispatch loop and the returning Raw callers, no goroutine closes a channel that is
\* closed or sends a response on one: no goroutine panics
C34_NoCloseTwiceNoSendOnClosed == panicked = FALSE

(***************************************************************************)
(* Claims about Connect and the worker's start                             *)
(***************************************************************************)

\* C35: without logs, a Connect whose worker has started, with both pools, returns nil in
\* the end: the worker writes the line the handshake waits for
C35_ConnectReturnsWhenWorkerStarted ==
  (cn.pc = "handshake" /\ ~logs /\ Started) ~> (cn.pc = "done" /\ cn.ret = "nil")

\* C36: a Connect that returns an error after it started the worker leaves the bridge as
\* it was (not connected, the stored streams and the readers untouched) and does not
\* leave the worker it started running
C36_FailedConnectKillsWorker ==
  [][(ConnectReturns("errRead") \/ ConnectReturns("errFailed")) =>
       /\ ~connected'
       /\ <<stdin, stdout, stderr>>' = <<stdin, stdout, stderr>>
       /\ NoReader'
       /\ cmd' = "dead"]_vars

(***************************************************************************)
(* Claims about the spare list and the stateless pool                      *)
(***************************************************************************)

\* C37: whatever getConnection and releaseConnection calls have run since create(), the
\* spare list holds at most the configured number of transaction connections
C37_SpareListBounded ==
  Len(availableConnections) <= TransactionConnections

\* Two transactions have run a statement on a connection of their own and have been
\* released, no transaction holds a connection, and the spare list is full
C37_Witness ==
  /\ \E r1, r2 \in released :
       /\ r1.transId # r2.transId /\ r1.conn # r2.conn
       /\ \E e1, e2 \in executed :
            /\ e1.transId = r1.transId /\ e1.conn = r1.conn
            /\ e2.transId = r2.transId /\ e2.conn = r2.conn
  /\ activeTransactionConnections = << >>
  /\ Len(availableConnections) = TransactionConnections
  /\ ~halted

\* The executor threads between getConnection and connection.close()
HoldsConnection == {t \in Threads : tpc[t] = "statement"}

\* No request waits in the executor's queue and no thread runs one
Quiescent == queue = <<>> /\ \A t \in Threads : tpc[t] = "idle"

EarlierUnfinished(t) ==
  \E u \in Threads \ {t} :
    /\ treq[u].transId = treq[t].transId
    /\ treq[u].msgId < treq[t].msgId
    /\ tpc[u] \in {"get", "exec", "running", "rollback"}

\* C39: the statements of one transaction run in the order their requests were read: a
\* statement does not start while an earlier one of its transaction is pending or
\* running, and the request with the finish flag does not release the connection then
C39_TransactionStatementsInOrder ==
  [][\A t \in Threads :
       /\ (tpc[t] = "exec" /\ tpc'[t] = "running") => ~EarlierUnfinished(t)
       /\ (tpc[t] = "cleanup" /\ tpc'[t] = "respond" /\ treq[t].finishTrans) =>
            ~EarlierUnfinished(t)]_vars


============================================================================
